---- MODULE Spec2Model ----
(***************************************************************************)
(* Crumb Chase: the grid of crumbs (Grid), the seeker (Player), the        *)
(* hunters (Cat) and the tick of the game (Game.update), as state machines.*)
(*                                                                         *)
(* Numbers.  Coordinates are held in 1/UNIT of a pixel and time in 1/HZ of *)
(* a second, so that every speed of the level table times every dt used    *)
(* is a whole number; a strength is a whole number (the program stores 0,  *)
(* 1 and what addCrumb is given).  Where the program divides by a          *)
(* distance (Math.hypot) the quotient is rounded to the nearest 1/UNIT     *)
(* pixel.  A coordinate that the program computes as NaN is carried by a   *)
(* flag (nan) beside the record's x and y.                                 *)
(***************************************************************************)
EXTENDS Integers, Sequences, FiniteSets, TLC

VARIABLES crumbs, ringSet, holeOpenSet, player, cats, level, running,
          timeAlive, decayAccum, result, lastOp

vars == <<crumbs, ringSet, holeOpenSet, player, cats, level, running,
          timeAlive, decayAccum, result, lastOp>>

(***************************************************************************)
(* Resolution of the model's numbers                                       *)
(***************************************************************************)
UNIT == 10
HZ == 60

(***************************************************************************)
(* Bounds of the model                                                     *)
(***************************************************************************)
COLS == 8
ROWS == 7
MaxTime == 6
MaxStrength == 2
LevelCap == 2
GridTime == 6
ChaseTime == 36
PairTime == 6
TrapTime == 60

(***************************************************************************)
(* config.js                                                               *)
(***************************************************************************)
TILE == 20 * UNIT
PLAYER_SPEED_CELLS == 6
PLAYER_RADIUS_PCT == 76
CAT_RADIUS_PCT == 88
A_STAR_RECALC_HZ == 5
CRUMB_COST_FOR_CAT == 14
GOAL_JITTER_RANGE == 1
SEPARATION_RADIUS_CELLS == 3
SEPARATION_FORCE == 40
CRUMB_STRENGTH == 1
RING_CRUMB_STRENGTH == 1
CRUMB_DECAY_PER_SEC == 12
PROB_BIASED_RING_DECAY == 0
TURN_EPS_PCT == 35
HOLE_COLUMN == 0
HOLE_HALF_HEIGHT == 2
CATCH_MARGIN_PCT == 75
Infinity == 1000000

getTurnEps == (TILE * TURN_EPS_PCT) \div 100
getHoleRow == ROWS \div 2

\* speedFactor in percent.  No entry has a crumbSpeedFactor field.
LEVEL_CONFIG ==
  << [cats |-> 1, speedFactor |-> 55],
     [cats |-> 1, speedFactor |-> 90],
     [cats |-> 2, speedFactor |-> 55],
     [cats |-> 2, speedFactor |-> 90],
     [cats |-> 2, speedFactor |-> 120],
     [cats |-> 3, speedFactor |-> 75],
     [cats |-> 3, speedFactor |-> 100],
     [cats |-> 3, speedFactor |-> 125],
     [cats |-> 3, speedFactor |-> 150],
     [cats |-> 4, speedFactor |-> 120] >>

MAX_LEVEL == Len(LEVEL_CONFIG)

\* F applied to the value of v, v computed once
Bind(v, F(_)) == CHOOSE r \in { F(x) : x \in {v} } : TRUE

Min2(a, b) == IF a < b THEN a ELSE b
Max2(a, b) == IF a > b THEN a ELSE b
Abs(a) == IF a < 0 THEN -a ELSE a
Sign(a) == IF a > 0 THEN 1 ELSE IF a < 0 THEN -1 ELSE 0

\* variant: every level plays with the first row of the table
getLevelConfigFirst(lv) == LEVEL_CONFIG[1]

\* variant: a level past the end of the table starts the table again
getLevelConfigWrap(lv) == LEVEL_CONFIG[((Max2(1, lv) - 1) % MAX_LEVEL) + 1]

getLevelConfig(lv) == LEVEL_CONFIG[Max2(1, Min2(MAX_LEVEL, lv))]

\* fractions of the grid, in percent
CAT_SPAWN_GRID == << <<35, 25>>, <<35, 75>>, <<65, 25>>, <<65, 75>>, <<50, 50>> >>

getPlayerSpawnX == (COLS - 5) * TILE + TILE \div 2
getPlayerSpawnY == ((ROWS + 1) * TILE) \div 2

(***************************************************************************)
(* core.js / game.js helpers                                               *)
(***************************************************************************)
N == COLS * ROWS
Cells == 0 .. (N - 1)

idx(c, r) == r * COLS + c
inBounds(c, r) == c >= 0 /\ r >= 0 /\ c < COLS /\ r < ROWS
cellAt(x, y) == [c |-> x \div TILE, r |-> y \div TILE]
centerOf(k) == k * TILE + TILE \div 2

\* Math.round(n / d) for n >= 0, d > 0
RoundFrac(n, d) == (2 * n + d) \div (2 * d)
\* n / d rounded to the nearest whole number, halves away from zero
RoundDiv(n, d) == IF n >= 0 THEN (2 * n + d) \div (2 * d) ELSE -((2 * (-n) + d) \div (2 * d))

\* Math.hypot, rounded down to the model's resolution
hypot(dx, dy) ==
  IF dy = 0 THEN Abs(dx)
  ELSE IF dx = 0 THEN Abs(dy)
  ELSE CHOOSE h \in Max2(Abs(dx), Abs(dy)) .. (Abs(dx) + Abs(dy)) :
         h * h <= dx * dx + dy * dy /\ dx * dx + dy * dy < (h + 1) * (h + 1)

(***************************************************************************)
(* Grid (grid.js).  A grid value is the pair crumbs, ringSet (and           *)
(* holeOpenSet); every method is an operator from grid to grid.            *)
(***************************************************************************)
isCrumbIn(cr, c, r) == IF inBounds(c, r) THEN cr[idx(c, r)] > 0 ELSE TRUE

\* variant: the new strength overwrites the old one
addCrumbOverwrite(cr, c, r, strength) ==
  IF inBounds(c, r) THEN [cr EXCEPT ![idx(c, r)] = strength] ELSE cr

\* variant: a crumb weakened to nothing stays in ringSet
weakenCrumbKeepRing(g, c, r, amount) ==
  IF inBounds(c, r) /\ g.crumbs[idx(c, r)] > 0
  THEN [crumbs |-> [g.crumbs EXCEPT ![idx(c, r)] = Max2(0, g.crumbs[idx(c, r)] - amount)],
        ringSet |-> g.ringSet]
  ELSE g

\* variant: no bounds test, the flat index alone decides
addCrumbNoBounds(cr, c, r, strength) ==
  IF idx(c, r) \in Cells
  THEN [cr EXCEPT ![idx(c, r)] = Max2(cr[idx(c, r)], strength)]
  ELSE cr

addCrumbIn(cr, c, r, strength) ==
  IF inBounds(c, r)
  THEN [cr EXCEPT ![idx(c, r)] = Max2(cr[idx(c, r)], strength)]
  ELSE cr

\* weakenCrumbByIndex(k, amount) on the pair [crumbs, ringSet]
weakenCrumbByIndexIn(g, k, amount) ==
  IF k >= 0 /\ k < N
  THEN IF g.crumbs[k] > 0
       THEN LET v == Max2(0, g.crumbs[k] - amount)
            IN [crumbs |-> [g.crumbs EXCEPT ![k] = v],
                ringSet |-> IF v = 0 THEN g.ringSet \ {k} ELSE g.ringSet]
       ELSE g
  ELSE g

weakenCrumbIn(g, c, r, amount) ==
  IF inBounds(c, r)
  THEN LET k == idx(c, r)
       IN IF g.crumbs[k] > 0
          THEN LET v == Max2(0, g.crumbs[k] - amount)
               IN [crumbs |-> [g.crumbs EXCEPT ![k] = v],
                   ringSet |-> IF v = 0 THEN g.ringSet \ {k} ELSE g.ringSet]
          ELSE g
  ELSE g

EmptyCrumbs == [k \in Cells |-> 0]

\* variant: clear leaves the strengths as they are
clearKeepCrumbs(g) == [crumbs |-> g.crumbs, ringSet |-> {}, holeOpenSet |-> {}]

\* Grid.clear on the grid g
clear(g) == [crumbs |-> EmptyCrumbs, ringSet |-> {}, holeOpenSet |-> {}]

holeRmin == Max2(0, getHoleRow - HOLE_HALF_HEIGHT)
holeRmax == Min2(ROWS - 1, getHoleRow + HOLE_HALF_HEIGHT)

\* The cells buildHoleBarrier gives a crumb, in the order it visits them
\* (the rectangle column by column, then the caps above and below).
\* variant: the rectangle covers the goal cells too
BarrierRectClosed ==
  { <<c, r>> \in (0 .. 2) \X ((holeRmin - 1) .. (holeRmax + 1)) : inBounds(c, r) }

\* variant: the rectangle leaves the hole's row open in every column
BarrierRectGap ==
  { <<c, r>> \in (0 .. 2) \X ((holeRmin - 1) .. (holeRmax + 1)) :
       inBounds(c, r) /\ r # getHoleRow + 1 /\ ~(c = 0 /\ r >= holeRmin /\ r <= holeRmax) }

BarrierRect ==
  { <<c, r>> \in (0 .. 2) \X ((holeRmin - 1) .. (holeRmax + 1)) :
       inBounds(c, r) /\ ~(c = 0 /\ r >= holeRmin /\ r <= holeRmax) }
BarrierCaps ==
  { <<c, r>> \in (0 .. 1) \X (((holeRmin - 2) .. (holeRmin - 1)) \cup ((holeRmax + 1) .. (holeRmax + 2))) :
       inBounds(c, r) }
BarrierCells == BarrierRect \cup BarrierCaps

\* Grid.buildHoleBarrier on the crumbs it is given
buildHoleBarrierIn(cr) ==
  [crumbs |-> [k \in Cells |->
                 IF \E p \in BarrierCells : idx(p[1], p[2]) = k
                 THEN Max2(cr[k], RING_CRUMB_STRENGTH)
                 ELSE cr[k]],
   ringSet |-> { idx(p[1], p[2]) : p \in BarrierCells },
   holeOpenSet |-> { idx(0, r) : r \in holeRmin .. holeRmax }]

isHoleCellIn(hs, c, r) == c = 0 /\ idx(c, r) \in hs

\* Set iteration order of ringSet: insertion order of buildHoleBarrier,
\* which deletions keep.
RECURSIVE SeqOfCols(_, _, _)
SeqOfCols(c, r, rhi) ==
  IF r > rhi THEN << >> ELSE << <<c, r>> >> \o SeqOfCols(c, r + 1, rhi)
BarrierOrder ==
  LET rect == SeqOfCols(0, holeRmin - 1, holeRmax + 1) \o SeqOfCols(1, holeRmin - 1, holeRmax + 1)
              \o SeqOfCols(2, holeRmin - 1, holeRmax + 1)
      caps == SeqOfCols(0, holeRmin - 2, holeRmin - 1) \o SeqOfCols(0, holeRmax + 1, holeRmax + 2)
              \o SeqOfCols(1, holeRmin - 2, holeRmin - 1) \o SeqOfCols(1, holeRmax + 1, holeRmax + 2)
  IN SelectSeq(rect \o caps, LAMBDA p : p \in BarrierCells)

RECURSIVE FirstOccurrences(_, _)
FirstOccurrences(s, seen) ==
  IF s = << >> THEN << >>
  ELSE IF Head(s) \in seen THEN FirstOccurrences(Tail(s), seen)
       ELSE << Head(s) >> \o FirstOccurrences(Tail(s), seen \cup {Head(s)})

\* Grid._randomFromSet(ringSet) with Math.random() = u / 100
randomFromRing(ring, u) ==
  LET order == SelectSeq(FirstOccurrences(BarrierOrder, {}), LAMBDA p : idx(p[1], p[2]) \in ring)
      n == (u * Len(order)) \div 100
  IN IF Len(order) = 0 THEN -1 ELSE idx(order[n + 1][1], order[n + 1][2])

\* variant: decayOneCrumb weakens nothing
decayNothing(g, pick) == g

\* Grid.decayOneCrumb; pick = the values Math.random() returns, in percent
\* for the two draws of the biased branch (u1, u2) and as the cell drawn
\* by the other branch (c, r).
decayOneCrumbIn(g, pick) ==
  LET biased == g.ringSet # {} /\ pick.u1 < PROB_BIASED_RING_DECAY
      k == randomFromRing(g.ringSet, pick.u2)
  IN IF biased /\ k # -1
     THEN weakenCrumbByIndexIn(g, k, 1)
     ELSE IF g.crumbs[idx(pick.c, pick.r)] > 0
          THEN weakenCrumbIn(g, pick.c, pick.r, 1)
          ELSE g

(***************************************************************************)
(* Player (player.js)                                                      *)
(***************************************************************************)
PLAYER_SPEED == PLAYER_SPEED_CELLS * TILE

\* Player.reset
playerReset ==
  [x |-> getPlayerSpawnX, y |-> getPlayerSpawnY, dirX |-> 0, dirY |-> 0,
   wishX |-> 0, wishY |-> 0, wishTimer |-> 0]

setWish(p, dx, dy) == [p EXCEPT !.wishX = dx, !.wishY = dy]

stop(p) == [p EXCEPT !.dirX = 0, !.dirY = 0, !.wishX = 0, !.wishY = 0]

\* variant: the column is not snapped to
nearestColumnCenterNone(p, movingDirX) == p.x

\* variant: the column ahead is taken whenever the seeker is moving
nearestColumnCenterAhead(p, movingDirX) == centerOf((p.x \div TILE) + Sign(movingDirX))

nearestColumnCenter(p, movingDirX) ==
  LET c == p.x \div TILE
      cx0 == centerOf(c)
      cx1 == centerOf(c + Sign(movingDirX))
  IN IF movingDirX # 0
     THEN (IF Abs(p.x - cx0) < Abs(p.x - cx1) THEN cx0 ELSE cx1)
     ELSE cx0

nearestRowCenter(p, movingDirY) ==
  LET r == p.y \div TILE
      cy0 == centerOf(r)
      cy1 == centerOf(r + Sign(movingDirY))
  IN IF movingDirY # 0
     THEN (IF Abs(p.y - cy0) < Abs(p.y - cy1) THEN cy0 ELSE cy1)
     ELSE cy0

\* variant: a vertical turn is allowed anywhere
canTurnAnywhere(p) == TRUE

canTurnVertical(p) ==
  LET c == p.x \div TILE
  IN \/ Abs(p.x - centerOf(c)) <= getTurnEps
     \/ p.dirX # 0 /\ Abs(p.x - centerOf(c + Sign(p.dirX))) <= getTurnEps

canTurnHorizontal(p) ==
  LET r == p.y \div TILE
  IN \/ Abs(p.y - centerOf(r)) <= getTurnEps
     \/ p.dirY # 0 /\ Abs(p.y - centerOf(r + Sign(p.dirY))) <= getTurnEps

\* wishTimer > 0.25 with the timer in 1/HZ seconds
FORCE_TURN_NUM == 4
\* variant: the failsafe never fires
timerNever(t) == FALSE

timerExpired(t) == t * FORCE_TURN_NUM > HZ

\* variant: a committed turn keeps the component of the old direction
processTurnsKeepAxis(p, dt) ==
  LET differs == p.wishX # p.dirX \/ p.wishY # p.dirY
      p1 == [p EXCEPT !.wishTimer = IF differs THEN p.wishTimer + dt ELSE 0]
      still == p1.dirX = 0 /\ p1.dirY = 0
  IN IF (p1.wishX = 0 /\ p1.wishY = 0) \/ ~differs THEN p1
     ELSE IF p1.wishX = 0 /\ p1.wishY # 0
     THEN IF still \/ canTurnVertical(p1) \/ timerExpired(p1.wishTimer)
          THEN [p1 EXCEPT !.x = nearestColumnCenter(p1, p1.dirX),
                          !.dirY = Sign(p1.wishY), !.wishTimer = 0]
          ELSE p1
     ELSE IF p1.wishY = 0 /\ p1.wishX # 0
     THEN IF still \/ canTurnHorizontal(p1) \/ timerExpired(p1.wishTimer)
          THEN [p1 EXCEPT !.y = nearestRowCenter(p1, p1.dirY),
                          !.dirX = Sign(p1.wishX), !.wishTimer = 0]
          ELSE p1
     ELSE p1

\* Player.processTurns(dt)
processTurns(p, dt) ==
  LET differs == p.wishX # p.dirX \/ p.wishY # p.dirY
      p1 == [p EXCEPT !.wishTimer = IF differs THEN p.wishTimer + dt ELSE 0]
      still == p1.dirX = 0 /\ p1.dirY = 0
  IN IF (p1.wishX = 0 /\ p1.wishY = 0) \/ ~differs THEN p1
     ELSE IF p1.wishX = 0 /\ p1.wishY # 0
     THEN IF still
          THEN [p1 EXCEPT !.x = nearestColumnCenter(p1, 0), !.dirX = 0,
                          !.dirY = Sign(p1.wishY), !.wishTimer = 0]
          ELSE IF canTurnVertical(p1) \/ timerExpired(p1.wishTimer)
          THEN [p1 EXCEPT !.x = nearestColumnCenter(p1, p1.dirX), !.dirX = 0,
                          !.dirY = Sign(p1.wishY), !.wishTimer = 0]
          ELSE p1
     ELSE IF p1.wishY = 0 /\ p1.wishX # 0
     THEN IF still
          THEN [p1 EXCEPT !.y = nearestRowCenter(p1, 0), !.dirY = 0,
                          !.dirX = Sign(p1.wishX), !.wishTimer = 0]
          ELSE IF canTurnHorizontal(p1) \/ timerExpired(p1.wishTimer)
          THEN [p1 EXCEPT !.y = nearestRowCenter(p1, p1.dirY), !.dirY = 0,
                          !.dirX = Sign(p1.wishX), !.wishTimer = 0]
          ELSE p1
     ELSE p1

\* Player.snapToGrid
snapToGrid(p) ==
  IF p.dirX = 0 /\ p.dirY = 0
  THEN [p EXCEPT !.x = centerOf(p.x \div TILE), !.y = centerOf(p.y \div TILE)]
  ELSE IF p.dirX = 0 /\ p.dirY # 0
  THEN [p EXCEPT !.x = centerOf(p.x \div TILE)]
  ELSE IF p.dirY = 0 /\ p.dirX # 0
  THEN [p EXCEPT !.y = centerOf(p.y \div TILE)]
  ELSE p

\* Player.getMovementDelta(dt): pixels per second times dt / HZ
getMovementDelta(p, dt) ==
  [dx |-> (p.dirX * PLAYER_SPEED * dt) \div HZ, dy |-> (p.dirY * PLAYER_SPEED * dt) \div HZ]

(***************************************************************************)
(* Game.moveAgent: one axis after the other, each against the position     *)
(* the previous axis left.                                                 *)
(***************************************************************************)
\* variant: the horizontal move is never blocked
moveAxisXFree(cr, x, y, dx, blockCrumb) == x + dx

moveAxisX(cr, x, y, dx, blockCrumb) ==
  IF dx = 0 THEN x
  ELSE LET cc == cellAt(x, y)
           centerX == centerOf(cc.c)
           dir == Sign(dx)
           nextC == cc.c + dir
           nextBlocked == blockCrumb /\ (~inBounds(nextC, cc.r) \/ isCrumbIn(cr, nextC, cc.r))
           nx == IF nextBlocked
                 THEN (IF dir > 0 THEN Min2(x + dx, centerX) ELSE Max2(x + dx, centerX))
                 ELSE x + dx
           cell == cellAt(nx, y)
           x1 == IF ~(blockCrumb /\ isCrumbIn(cr, cell.c, cell.r)) /\ inBounds(cell.c, cell.r)
                 THEN nx ELSE x
       IN IF nextBlocked /\ ((dir > 0 /\ x1 >= centerX) \/ (dir < 0 /\ x1 <= centerX))
          THEN centerX ELSE x1

moveAxisY(cr, x, y, dy, blockCrumb) ==
  IF dy = 0 THEN y
  ELSE LET cc == cellAt(x, y)
           centerY == centerOf(cc.r)
           dir == Sign(dy)
           nextR == cc.r + dir
           nextBlocked == blockCrumb /\ (~inBounds(cc.c, nextR) \/ isCrumbIn(cr, cc.c, nextR))
           ny == IF nextBlocked
                 THEN (IF dir > 0 THEN Min2(y + dy, centerY) ELSE Max2(y + dy, centerY))
                 ELSE y + dy
           cell == cellAt(x, ny)
           y1 == IF ~(blockCrumb /\ isCrumbIn(cr, cell.c, cell.r)) /\ inBounds(cell.c, cell.r)
                 THEN ny ELSE y
       IN IF nextBlocked /\ ((dir > 0 /\ y1 >= centerY) \/ (dir < 0 /\ y1 <= centerY))
          THEN centerY ELSE y1

moveAgent(cr, p, dx, dy, blockCrumb) ==
  LET x1 == moveAxisX(cr, p.x, p.y, dx, blockCrumb)
      y1 == moveAxisY(cr, x1, p.y, dy, blockCrumb)
  IN [p EXCEPT !.x = x1, !.y = y1]

(***************************************************************************)
(* Game.aStar                                                              *)
(***************************************************************************)
heuristic(c1, r1, c2, r2) == Abs(c1 - c2) + Abs(r1 - r2)

\* variant: no step to the row above
neighborsNoUp == << <<1, 0>>, <<-1, 0>>, <<0, 1>> >>

neighbors == << <<1, 0>>, <<-1, 0>>, <<0, 1>>, <<0, -1>> >>

\* the while (true) loop; st = [g, f, came, open, closed]
\* Game.aStar, one turn of the while loop on st = [g, f, came, open, closed, done];
\* done: the loop has been left (open is empty, or current is the goal)
aStarStep(cr, st, goal, goalC, goalR) ==
  IF st.done THEN st
  ELSE IF st.open = {} THEN [st EXCEPT !.done = TRUE]
  ELSE \* current: the lowest f of the open set, the lowest index among equals
       Bind(CHOOSE i \in st.open :
              \A j \in st.open : st.f[i] < st.f[j] \/ (st.f[i] = st.f[j] /\ i <= j), LAMBDA current :
         IF current = goal
         THEN [st EXCEPT !.open = st.open \ {current}, !.closed = st.closed \cup {current},
                         !.done = TRUE]
         ELSE \* hit: the neighbours of current whose entry is rewritten
              Bind({ idx(p[1], p[2]) :
                       p \in { q \in { <<(current % COLS) + neighbors[n][1],
                                         (current \div COLS) + neighbors[n][2]>> :
                                         n \in 1 .. Len(neighbors) } :
                                 /\ inBounds(q[1], q[2])
                                 /\ idx(q[1], q[2]) \notin st.closed
                                 /\ st.g[current]
                                      + (IF isCrumbIn(cr, q[1], q[2]) THEN CRUMB_COST_FOR_CAT ELSE 1)
                                    < st.g[idx(q[1], q[2])] } }, LAMBDA hit :
                LET tentative(k) == st.g[current] + (IF cr[k] > 0 THEN CRUMB_COST_FOR_CAT ELSE 1)
                IN [g |-> [k \in Cells |-> IF k \in hit THEN tentative(k) ELSE st.g[k]],
                    f |-> [k \in Cells |-> IF k \in hit
                                           THEN tentative(k) + heuristic(k % COLS, k \div COLS, goalC, goalR)
                                           ELSE st.f[k]],
                    came |-> [k \in Cells |-> IF k \in hit THEN current ELSE st.came[k]],
                    open |-> (st.open \ {current}) \cup hit,
                    closed |-> st.closed \cup {current},
                    done |-> FALSE]))

\* n turns of the loop, the first half and then the second
RECURSIVE aStarLoop(_, _, _, _, _, _)
aStarLoop(cr, st, n, goal, goalC, goalR) ==
  IF n <= 1 THEN aStarStep(cr, st, goal, goalC, goalR)
  ELSE Bind(aStarLoop(cr, st, n \div 2, goal, goalC, goalR), LAMBDA mid :
            IF mid.done THEN mid ELSE aStarLoop(cr, mid, n - (n \div 2), goal, goalC, goalR))

RECURSIVE aStarPath(_, _, _)
aStarPath(came, start, node) ==
  IF node = start \/ node = -1 THEN << >>
  ELSE aStarPath(came, start, came[node]) \o << [c |-> node % COLS, r |-> node \div COLS] >>

\* Game.aStar(startC, startR, goalC, goalR); a start index outside the
\* arrays leaves them as initialised.
aStar(cr, startC, startR, goalC, goalR) ==
  LET start == idx(startC, startR)
      goal == idx(goalC, goalR)
      st0 == [g |-> [k \in Cells |-> IF k = start THEN 0 ELSE Infinity],
              f |-> [k \in Cells |-> IF k = start THEN heuristic(startC, startR, goalC, goalR) ELSE Infinity],
              came |-> [k \in Cells |-> -1],
              open |-> {start} \cap Cells,
              closed |-> {},
              done |-> FALSE]
  IN IF start = goal THEN << >>
     ELSE \* every turn closes a cell: the loop is left within N + 1 turns
          Bind(aStarLoop(cr, st0, N + 1, goal, goalC, goalR), LAMBDA st :
            IF st.came[goal] = -1 THEN << >> ELSE aStarPath(st.came, start, goal))

(***************************************************************************)
(* Cat (cat.js)                                                            *)
(***************************************************************************)
\* the value of a field the level table does not have
Undefined == -1
NaNCell == [c |-> 0, r |-> 0, nan |-> TRUE]
NaNSpeed == [nan |-> TRUE, v |-> 0]
HALF_PIXEL == UNIT \div 2
SEP_SCALE == 1000

\* Cat.fromSpawnFraction and the constructor; speedCells in 1/100 cell per second
fromSpawnFraction(colPct, rowPct, speedCells, crumbSpeedFactor, id, jitter) ==
  LET col == Max2(0, Min2(COLS - 1, RoundFrac(COLS * colPct, 100)))
      row == Max2(0, Min2(ROWS - 1, RoundFrac(ROWS * rowPct, 100)))
  IN [id |-> id, x |-> centerOf(col), y |-> centerOf(row), nan |-> FALSE,
      speedCells |-> speedCells, crumbSpeedFactor |-> crumbSpeedFactor,
      path |-> << >>, pathTimer |-> 0, goalJitter |-> jitter,
      lastCell |-> [c |-> -1, r |-> -1, nan |-> FALSE]]

\* Cat.getCell
getCell(cat) ==
  IF cat.nan THEN NaNCell ELSE [c |-> cat.x \div TILE, r |-> cat.y \div TILE, nan |-> FALSE]

\* Grid.isCrumb on a cell that may be (NaN, NaN)
isCrumbCell(cr, cell) == IF cell.nan THEN TRUE ELSE isCrumbIn(cr, cell.c, cell.r)

PATH_PERIOD == HZ \div A_STAR_RECALC_HZ

\* Cat.shouldRecalculatePath(dt); jitter = the two randInt draws
shouldRecalculatePath(cat, dt, jitter) ==
  IF cat.pathTimer - dt <= 0
  THEN [cat |-> [cat EXCEPT !.pathTimer = PATH_PERIOD, !.goalJitter = jitter], recalc |-> TRUE]
  ELSE [cat |-> [cat EXCEPT !.pathTimer = cat.pathTimer - dt], recalc |-> FALSE]

getGoalCell(cat, playerCell) ==
  [c |-> Max2(0, Min2(COLS - 1, playerCell.c + cat.goalJitter.dc)),
   r |-> Max2(0, Min2(ROWS - 1, playerCell.r + cat.goalJitter.dr))]

\* Cat.calculateSpeed(grid), in 1/UNIT pixel per second
calculateSpeed(cat, cr) ==
  LET inCrumb == \/ isCrumbCell(cr, getCell(cat))
                 \/ cat.path # << >> /\ isCrumbIn(cr, cat.path[1].c, cat.path[1].r)
      base == (cat.speedCells * TILE) \div 100
  IN IF inCrumb
     THEN IF cat.crumbSpeedFactor = Undefined THEN NaNSpeed
          ELSE [nan |-> FALSE, v |-> (base * cat.crumbSpeedFactor) \div 100]
     ELSE [nan |-> FALSE, v |-> base]

\* Cat.applySeparation(allCats, dt)
RECURSIVE separationSum(_, _, _)
separationSum(cat, allCats, i) ==
  IF i > Len(allCats) THEN [x |-> 0, y |-> 0]
  ELSE LET other == allCats[i]
           rest == separationSum(cat, allCats, i + 1)
           dx == cat.x - other.x
           dy == cat.y - other.y
           d == hypot(dx, dy)
           R == SEPARATION_RADIUS_CELLS * TILE
       IN IF other.id = cat.id \/ other.nan \/ ~(d > 0 /\ d < R) THEN rest
          ELSE [x |-> rest.x + RoundDiv(dx * (R - d) * SEP_SCALE, d * R),
                y |-> rest.y + RoundDiv(dy * (R - d) * SEP_SCALE, d * R)]

applySeparation(cat, allCats, dt) ==
  IF cat.nan THEN cat
  ELSE LET sep == separationSum(cat, allCats, 1)
           len0 == hypot(sep.x, sep.y)
           len == IF len0 = 0 THEN SEP_SCALE ELSE len0
       IN IF sep.x # 0 \/ sep.y # 0
          THEN [cat EXCEPT !.x = cat.x + RoundDiv(sep.x * SEPARATION_FORCE * UNIT * dt, len * HZ),
                           !.y = cat.y + RoundDiv(sep.y * SEPARATION_FORCE * UNIT * dt, len * HZ)]
          ELSE cat

\* Cat.moveAlongPath(speedPx, dt, playerPos); noise = the two randRange
\* draws times TILE
moveAlongPath(cat, speed, dt, playerPos, noise) ==
  IF cat.nan THEN cat
  ELSE IF cat.path # << >>
  THEN LET targetX == centerOf(cat.path[1].c)
           targetY == centerOf(cat.path[1].r)
           dx == targetX - cat.x
           dy == targetY - cat.y
           d == Bind(hypot(dx, dy), LAMBDA d0 : IF d0 = 0 THEN UNIT ELSE d0)
           step == Min2(d, RoundDiv(speed.v * dt, HZ))
           x1 == cat.x + RoundDiv(dx * step, d)
           y1 == cat.y + RoundDiv(dy * step, d)
       IN IF speed.nan
          THEN [cat EXCEPT !.nan = TRUE, !.x = 0, !.y = 0,
                           !.path = IF d <= HALF_PIXEL THEN Tail(cat.path) ELSE cat.path]
          ELSE [cat EXCEPT !.x = x1, !.y = y1,
                           !.path = IF d <= HALF_PIXEL
                                       \/ (Abs(x1 - targetX) < HALF_PIXEL /\ Abs(y1 - targetY) < HALF_PIXEL)
                                    THEN Tail(cat.path) ELSE cat.path]
  ELSE LET dx == playerPos.x + noise.nx - cat.x
           dy == playerPos.y + noise.ny - cat.y
           d == Bind(hypot(dx, dy), LAMBDA d0 : IF d0 = 0 THEN UNIT ELSE d0)
           step == RoundDiv(speed.v * dt, HZ)
       IN IF speed.nan
          THEN [cat EXCEPT !.nan = TRUE, !.x = 0, !.y = 0]
          ELSE [cat EXCEPT !.x = cat.x + RoundDiv(dx * step, d),
                           !.y = cat.y + RoundDiv(dy * step, d)]

\* variant: no change of cell is ever reported
checkCellChangeNever(cat) ==
  [changed |-> FALSE, prevCell |-> cat.lastCell,
   cat |-> [cat EXCEPT !.lastCell = getCell(cat)]]

\* Cat.checkCellChange: NaN differs from everything, itself included
checkCellChange(cat) ==
  LET curCell == getCell(cat)
  IN [changed |-> curCell.nan \/ cat.lastCell.nan
                  \/ curCell.c # cat.lastCell.c \/ curCell.r # cat.lastCell.r,
      prevCell |-> cat.lastCell,
      cat |-> [cat EXCEPT !.lastCell = curCell]]

catchDist == (TILE * (CAT_RADIUS_PCT + PLAYER_RADIUS_PCT) * CATCH_MARGIN_PCT) \div 10000

\* Cat.hasCaughtPlayer(player)
hasCaughtPlayer(cat, p) ==
  /\ ~cat.nan
  /\ (cat.x - p.x) * (cat.x - p.x) + (cat.y - p.y) * (cat.y - p.y) < catchDist * catchDist

(***************************************************************************)
(* Game (game.js).  A game value s holds the fields of Game and of its     *)
(* grid, seeker and hunters.                                               *)
(***************************************************************************)
State ==
  [crumbs |-> crumbs, ringSet |-> ringSet, holeOpenSet |-> holeOpenSet,
   player |-> player, cats |-> cats, level |-> level, running |-> running,
   timeAlive |-> timeAlive, decayAccum |-> decayAccum]

\* the constructor: empty grid without barrier, no hunters
constructed ==
  [crumbs |-> EmptyCrumbs, ringSet |-> {}, holeOpenSet |-> {},
   player |-> playerReset, cats |-> << >>, level |-> 1, running |-> TRUE,
   timeAlive |-> 0, decayAccum |-> 0]

\* Game.startLevel(resetToLevel1); jits[i] = the constructor's jitter of hunter i
startLevel(s, resetToLevel1, jits) ==
  LET lv == IF resetToLevel1 THEN 1 ELSE s.level
      cfg == getLevelConfig(lv)
      speedCells == PLAYER_SPEED_CELLS * cfg.speedFactor
      g == buildHoleBarrierIn(clear([crumbs |-> s.crumbs, ringSet |-> s.ringSet,
                                     holeOpenSet |-> s.holeOpenSet]).crumbs)
  IN [crumbs |-> g.crumbs, ringSet |-> g.ringSet, holeOpenSet |-> g.holeOpenSet,
      player |-> playerReset,
      cats |-> [i \in 1 .. cfg.cats |->
                  LET spawn == CAT_SPAWN_GRID[((i - 1) % Len(CAT_SPAWN_GRID)) + 1]
                  IN fromSpawnFraction(spawn[1], spawn[2], speedCells, Undefined, i - 1, jits[i])],
      level |-> lv, running |-> TRUE, timeAlive |-> 0, decayAccum |-> 0]

\* Game.reset(level)
reset(s, lv, jits) == startLevel([s EXCEPT !.level = lv], TRUE, jits)

\* Game.update up to the goal test: turn, move, snap, leave a crumb
seekerPhase(s, dt) ==
  Bind(processTurns(s.player, dt), LAMBDA p1 :
  Bind(getMovementDelta(p1, dt), LAMBDA delta :
  Bind(snapToGrid(moveAgent(s.crumbs, p1, delta.dx, delta.dy, TRUE)), LAMBDA p2 :
    LET prevCell == cellAt(p1.x, p1.y)
        curCell == cellAt(p2.x, p2.y)
        cr1 == IF /\ (curCell.c # prevCell.c \/ curCell.r # prevCell.r)
                  /\ inBounds(prevCell.c, prevCell.r)
                  /\ ~isHoleCellIn(s.holeOpenSet, prevCell.c, prevCell.r)
               THEN addCrumbIn(s.crumbs, prevCell.c, prevCell.r, CRUMB_STRENGTH)
               ELSE s.crumbs
    IN [s |-> [s EXCEPT !.timeAlive = s.timeAlive + dt, !.player = p2, !.crumbs = cr1],
        won |-> isHoleCellIn(s.holeOpenSet, curCell.c, curCell.r)])))

\* what a hunter's update did to the cell it remembered: the cell, whether
\* the hunter is in another cell now, the cell's strength before the
\* update (was) and after it (now, inRing), and whether the update left the
\* whole grid as it was (same)
leftBy(prevCell, curCell, g0, g1) ==
  LET inGrid == ~prevCell.nan /\ inBounds(prevCell.c, prevCell.r)
      k == IF inGrid THEN idx(prevCell.c, prevCell.r) ELSE 0
  IN [changed |-> curCell.nan \/ prevCell.nan \/ curCell.c # prevCell.c \/ curCell.r # prevCell.r,
      cell |-> prevCell, inGrid |-> inGrid,
      was |-> IF inGrid THEN g0.crumbs[k] ELSE 0,
      now |-> IF inGrid THEN g1.crumbs[k] ELSE 0,
      inRing |-> inGrid /\ k \in g1.ringSet,
      same |-> g1 = g0]

\* Game.update, the body of the loop for hunter i
catStep(s, i, dt, jit, noise) ==
  Bind(shouldRecalculatePath(s.cats[i], dt, jit), LAMBDA sr :
  Bind(IF sr.recalc
       THEN LET goal == getGoalCell(sr.cat, cellAt(s.player.x, s.player.y))
                catCell == getCell(sr.cat)
            IN [sr.cat EXCEPT !.path = IF catCell.nan THEN << >>
                                        ELSE aStar(s.crumbs, catCell.c, catCell.r, goal.c, goal.r)]
       ELSE sr.cat, LAMBDA cat1 :
  Bind(calculateSpeed(cat1, s.crumbs), LAMBDA speedPx :
  Bind(applySeparation(cat1, [s.cats EXCEPT ![i] = cat1], dt), LAMBDA cat2 :
  Bind(moveAlongPath(cat2, speedPx, dt, s.player, noise), LAMBDA cat3 :
  Bind(checkCellChange(cat3), LAMBDA chk :
  Bind(IF chk.changed /\ isCrumbCell(s.crumbs, chk.prevCell) /\ ~chk.prevCell.nan
       THEN weakenCrumbIn([crumbs |-> s.crumbs, ringSet |-> s.ringSet],
                          chk.prevCell.c, chk.prevCell.r, Infinity)
       ELSE [crumbs |-> s.crumbs, ringSet |-> s.ringSet], LAMBDA g1 :
  Bind(hasCaughtPlayer(chk.cat, s.player), LAMBDA caught :
    [s |-> [s EXCEPT !.cats[i] = chk.cat, !.crumbs = g1.crumbs, !.ringSet = g1.ringSet,
                     !.running = IF caught THEN FALSE ELSE s.running],
     caught |-> caught, speed |-> speedPx,
     left |-> leftBy(s.cats[i].lastCell, getCell(cat3),
                     [crumbs |-> s.crumbs, ringSet |-> s.ringSet], g1)]))))))))

\* variant: the loop goes on to the next hunter after a catch
RECURSIVE catsLoopNoBreak(_, _, _, _, _, _, _)
catsLoopNoBreak(s, i, dt, jit, noise, speeds, lefts) ==
  IF i > Len(s.cats)
  THEN [s |-> s, caught |-> ~s.running, updated |-> i - 1, speeds |-> speeds, lefts |-> lefts]
  ELSE Bind(catStep(s, i, dt, jit[i], noise[i]), LAMBDA st :
         catsLoopNoBreak(st.s, i + 1, dt, jit, noise, Append(speeds, st.speed),
                         Append(lefts, st.left)))

\* Game.update, the loop over the hunters from hunter i on
RECURSIVE catsLoop(_, _, _, _, _, _, _)
catsLoop(s, i, dt, jit, noise, speeds, lefts) ==
  IF i > Len(s.cats)
  THEN [s |-> s, caught |-> FALSE, updated |-> i - 1, speeds |-> speeds, lefts |-> lefts]
  ELSE Bind(catStep(s, i, dt, jit[i], noise[i]), LAMBDA st :
         IF st.caught
         THEN [s |-> st.s, caught |-> TRUE, updated |-> i, speeds |-> Append(speeds, st.speed),
               lefts |-> Append(lefts, st.left)]
         ELSE catsLoop(st.s, i + 1, dt, jit, noise, Append(speeds, st.speed),
                       Append(lefts, st.left)))

\* Game.update, the decay: the accumulator in 1/HZ of a crumb
RECURSIVE decayLoop(_, _, _)
decayLoop(g, picks, i) ==
  IF i > Len(picks) THEN g ELSE decayLoop(decayOneCrumbIn(g, picks[i]), picks, i + 1)

\* variant: an if in place of the while, one call at most on a tick
decayCallsOnce(s, dt) == IF s.decayAccum + dt * CRUMB_DECAY_PER_SEC >= HZ THEN 1 ELSE 0

decayCalls(s, dt) == (s.decayAccum + dt * CRUMB_DECAY_PER_SEC) \div HZ

decayPhase(s, dt, picks) ==
  LET g == decayLoop([crumbs |-> s.crumbs, ringSet |-> s.ringSet], picks, 1)
  IN [s EXCEPT !.crumbs = g.crumbs, !.ringSet = g.ringSet,
               !.decayAccum = (s.decayAccum + dt * CRUMB_DECAY_PER_SEC) % HZ]

(***************************************************************************)
(* The values Math.random() may give                                       *)
(***************************************************************************)
JitterAll == { [dc |-> a, dr |-> b] : a \in (-GOAL_JITTER_RANGE) .. GOAL_JITTER_RANGE,
                                      b \in (-GOAL_JITTER_RANGE) .. GOAL_JITTER_RANGE }
NoJitter == [dc |-> 0, dr |-> 0]
NoNoise == [nx |-> 0, ny |-> 0]

\* one draw per hunter that redraws its jitter on this tick
jitterDraws(cs, dt, JS) ==
  { j \in [1 .. Len(cs) -> JS \cup {NoJitter}] :
      \A i \in 1 .. Len(cs) : (cs[i].pathTimer - dt > 0) => j[i] = NoJitter }

(***************************************************************************)
(* Actions                                                                 *)
(***************************************************************************)
NoResult == [caught |-> FALSE, levelComplete |-> FALSE]
NoInfo == [updated |-> 0, decays |-> 0, speeds |-> << >>, lefts |-> << >>, near |-> FALSE]

SetState(s) ==
  /\ crumbs' = s.crumbs
  /\ ringSet' = s.ringSet
  /\ holeOpenSet' = s.holeOpenSet
  /\ player' = s.player
  /\ cats' = s.cats
  /\ level' = s.level
  /\ running' = s.running
  /\ timeAlive' = s.timeAlive
  /\ decayAccum' = s.decayAccum

Op(name, a, b, c, info) == [op |-> name, a |-> a, b |-> b, c |-> c, info |-> info]

\* variant: update runs whether or not the game is running
neverStopped(s) == FALSE

\* the test of update's first line
notRunning(s) == ~s.running

(***************************************************************************)
(* What Game.step returns.  A reward is held in 1/CENT: the survival bonus *)
(* 0.05 is 5 and the terminal rewards are 100 * CENT and -100 * CENT.  The *)
(* distance to the goal is in 1/CENT of a cell.                            *)
(***************************************************************************)
CENT == 100

\* Game._distanceToHole
distanceToHole(p) ==
  hypot(CENT * cellAt(p.x, p.y).c, CENT * (cellAt(p.x, p.y).r - getHoleRow))

\* Game._minDistanceToCat: a distance that is NaN is never below the minimum
RECURSIVE minDistanceToCat(_, _, _, _)
minDistanceToCat(cs, p, i, min) ==
  IF i > Len(cs) THEN min
  ELSE IF cs[i].nan THEN minDistanceToCat(cs, p, i + 1, min)
  ELSE minDistanceToCat(cs, p, i + 1, Min2(min, hypot(cs[i].x - p.x, cs[i].y - p.y)))

\* variant: a tick that reached the goal is rewarded but does not end the
\* episode
stepDoneOnCaught(res) == res.caught

\* done: result.caught || result.levelComplete
stepDone(res) == res.caught \/ res.levelComplete

\* the reward of a tick that neither caught nor reached the goal
shapedReward(prevDistToHole, p, cs) ==
  LET progress == prevDistToHole - distanceToHole(p)
      minCatDist == minDistanceToCat(cs, p, 1, Infinity)
      dangerRadius == TILE * 5
  IN progress * 50 + 5
     - (IF minCatDist < dangerRadius
        THEN 2 * CENT - RoundDiv(2 * CENT * minCatDist, dangerRadius) ELSE 0)
     - (IF p.dirX = 0 /\ p.dirY = 0 THEN 10 ELSE 0)

\* the value step returns, from update's result res and the game after it
stepResult(prevDistToHole, p, cs, res) ==
  [reward |-> IF res.caught THEN -100 * CENT
              ELSE IF res.levelComplete THEN 100 * CENT
              ELSE shapedReward(prevDistToHole, p, cs),
   done |-> stepDone(res),
   info |-> res]

\* the value the operation name returns on the game value s it was given:
\* step's record; update's result is the variable result
returned(name, s) ==
  IF name = "step" THEN stepResult(distanceToHole(s.player), player', cats', result') ELSE 0

\* a hunter of the game value s is within catch distance of its seeker
hunterNear(s) == \E i \in 1 .. Len(s.cats) : hasCaughtPlayer(s.cats[i], s.player)

\* variant: the tick is won only when no hunter is within catch distance
winUnlessNear(mv) == mv.won /\ ~hunterNear(mv.s)

\* the win condition of update, tested before the loop over the hunters
winFirst(mv) == mv.won

\* update(dt) on the game value s; JS, NS, DS = the jitters, the fallback
\* noises and the decay draws considered
UpdateFrom(s, dt, JS, NS, DS, horizon, name, a) ==
  IF notRunning(s)
  THEN /\ SetState(s)
       /\ result' = NoResult
       /\ lastOp' = Op(name, a, dt, returned(name, s), NoInfo)
  ELSE /\ s.timeAlive + dt <= horizon
       /\ \E mv \in {seekerPhase(s, dt)} :
            IF winFirst(mv)
            THEN /\ s.level < LevelCap
                 /\ \E jits \in [1 .. getLevelConfig(s.level + 1).cats -> JS] :
                      \E nxt \in {startLevel([mv.s EXCEPT !.level = s.level + 1], FALSE, jits)} :
                        SetState(nxt)
                 /\ result' = [caught |-> FALSE, levelComplete |-> TRUE]
                 /\ lastOp' = Op(name, a, dt, returned(name, s),
                                 [NoInfo EXCEPT !.near = hunterNear(mv.s)])
            ELSE \E jit \in jitterDraws(s.cats, dt, JS), noise \in [1 .. Len(s.cats) -> NS] :
                   \E ct \in {catsLoop(mv.s, 1, dt, jit, noise, << >>, << >>)} :
                     IF ct.caught
                     THEN /\ SetState(ct.s)
                          /\ result' = [caught |-> TRUE, levelComplete |-> FALSE]
                          /\ lastOp' = Op(name, a, dt, returned(name, s),
                                          [updated |-> ct.updated, decays |-> 0, speeds |-> ct.speeds,
                                           lefts |-> ct.lefts, near |-> FALSE])
                     ELSE \E picks \in [1 .. decayCalls(ct.s, dt) -> DS] :
                            \E nxt \in {decayPhase(ct.s, dt, picks)} :
                              /\ SetState(nxt)
                              /\ result' = NoResult
                              /\ lastOp' = Op(name, a, dt, returned(name, s),
                                              [updated |-> ct.updated, decays |-> Len(picks),
                                               speeds |-> ct.speeds, lefts |-> ct.lefts,
                                               near |-> FALSE])

Update(dt, JS, NS, DS, horizon) ==
  \E s \in {State} : UpdateFrom(s, dt, JS, NS, DS, horizon, "update", 0)

\* Game.step(action, dt): the action's input, then update
stepActions == << <<-1, 0>>, <<1, 0>>, <<0, -1>>, <<0, 1>>, <<0, 0>> >>

\* variant: an index outside the table is taken as the nearest one inside
applyActionClamped(p, action) ==
  LET i == Max2(0, Min2(action, Len(stepActions) - 1)) + 1
  IN IF stepActions[i][1] = 0 /\ stepActions[i][2] = 0
     THEN stop(p)
     ELSE setWish(p, stepActions[i][1], stepActions[i][2])

applyAction(p, action) ==
  IF action >= 0 /\ action < Len(stepActions)
  THEN IF stepActions[action + 1][1] = 0 /\ stepActions[action + 1][2] = 0
       THEN stop(p)
       ELSE setWish(p, stepActions[action + 1][1], stepActions[action + 1][2])
  ELSE p

Step(action, dt, JS, NS, DS, horizon) ==
  \E s \in {[State EXCEPT !.player = applyAction(player, action)]} :
    UpdateFrom(s, dt, JS, NS, DS, horizon, "step", action)

Reset(lv, JS) ==
  /\ \E jits \in [1 .. getLevelConfig(1).cats -> JS] :
       \E nxt \in {reset(State, lv, jits)} : SetState(nxt)
  /\ lastOp' = Op("reset", lv, 0, 0, NoInfo)
  /\ UNCHANGED result

StartLevel(resetToLevel1, JS) ==
  /\ \E jits \in [1 .. getLevelConfig(IF resetToLevel1 THEN 1 ELSE level).cats -> JS] :
       \E nxt \in {startLevel(State, resetToLevel1, jits)} : SetState(nxt)
  /\ lastOp' = Op("startLevel", IF resetToLevel1 THEN 1 ELSE 0, 0, 0, NoInfo)
  /\ UNCHANGED result

SetWish(dx, dy) ==
  /\ player' = setWish(player, dx, dy)
  /\ lastOp' = Op("setWish", dx, dy, 0, NoInfo)
  /\ UNCHANGED <<crumbs, ringSet, holeOpenSet, cats, level, running, timeAlive, decayAccum, result>>

Stop ==
  /\ player' = stop(player)
  /\ lastOp' = Op("stop", 0, 0, 0, NoInfo)
  /\ UNCHANGED <<crumbs, ringSet, holeOpenSet, cats, level, running, timeAlive, decayAccum, result>>

Init ==
  /\ crumbs = constructed.crumbs
  /\ ringSet = constructed.ringSet
  /\ holeOpenSet = constructed.holeOpenSet
  /\ player = constructed.player
  /\ cats = constructed.cats
  /\ level = constructed.level
  /\ running = constructed.running
  /\ timeAlive = constructed.timeAlive
  /\ decayAccum = constructed.decayAccum
  /\ result = NoResult
  /\ lastOp = Op("new", 0, 0, 0, NoInfo)

(***************************************************************************)
(* The game as its host drives it: input, ticks of 1/60 s and of the       *)
(* host loop's cap 0.05 s, reset.                                          *)
(***************************************************************************)
Dts == {1, 3}
Wishes == { <<-1, 0>>, <<0, -1>> }
Jitters == { NoJitter, [dc |-> -1, dr |-> 0] }
Noises == { NoNoise }
DecayDraws == { [u1 |-> 0, u2 |-> 0, c |-> c, r |-> getHoleRow + 1] : c \in 1 .. 2 }

ResetLevels == {1, 3}

DoUpdate == \E dt \in Dts : Update(dt, Jitters, Noises, DecayDraws, MaxTime)
DoReset == \E lv \in ResetLevels : Reset(lv, {NoJitter})
DoStartLevel == \E flag \in BOOLEAN : StartLevel(flag, {NoJitter})
DoSetWish == \E w \in Wishes : SetWish(w[1], w[2])

Next == DoUpdate \/ DoReset \/ DoStartLevel \/ DoSetWish \/ Stop

Spec == Init /\ [][Next]_vars

(***************************************************************************)
(* The grid's own operations, called in any order on the grid of a game,   *)
(* between ticks of that game.                                             *)
(***************************************************************************)
GameVars == <<player, cats, level, running, timeAlive, decayAccum, result>>

\* coordinates tried: the seeker's spawn cell, a barrier cell beside the
\* goal, and a cell outside the grid
GridCols == {-1, 1, COLS - 5, COLS}
GridRows == {getHoleRow + 1, ROWS}
Strengths == 0 .. MaxStrength
Amounts == {1, Infinity}
GridIndexes == {-1, idx(1, getHoleRow + 1), idx(COLS - 5, getHoleRow + 1), N}

GClear ==
  /\ \E g \in {clear([crumbs |-> crumbs, ringSet |-> ringSet, holeOpenSet |-> holeOpenSet])} :
       /\ crumbs' = g.crumbs
       /\ ringSet' = g.ringSet
       /\ holeOpenSet' = g.holeOpenSet
  /\ lastOp' = Op("clear", 0, 0, 0, NoInfo)
  /\ UNCHANGED GameVars

GBuildHoleBarrier ==
  /\ \E g \in {buildHoleBarrierIn(crumbs)} :
       /\ crumbs' = g.crumbs
       /\ ringSet' = g.ringSet
       /\ holeOpenSet' = g.holeOpenSet
  /\ lastOp' = Op("buildHoleBarrier", 0, 0, 0, NoInfo)
  /\ UNCHANGED GameVars

GAddCrumb(c, r, strength) ==
  /\ crumbs' = addCrumbIn(crumbs, c, r, strength)
  /\ lastOp' = Op("addCrumb", c, r, strength, NoInfo)
  /\ UNCHANGED <<ringSet, holeOpenSet>>
  /\ UNCHANGED GameVars

GWeakenCrumb(c, r, amount) ==
  /\ \E g \in {weakenCrumbIn([crumbs |-> crumbs, ringSet |-> ringSet], c, r, amount)} :
       /\ crumbs' = g.crumbs
       /\ ringSet' = g.ringSet
  /\ lastOp' = Op("weakenCrumb", c, r, amount, NoInfo)
  /\ UNCHANGED holeOpenSet
  /\ UNCHANGED GameVars

GWeakenCrumbByIndex(k, amount) ==
  /\ \E g \in {weakenCrumbByIndexIn([crumbs |-> crumbs, ringSet |-> ringSet], k, amount)} :
       /\ crumbs' = g.crumbs
       /\ ringSet' = g.ringSet
  /\ lastOp' = Op("weakenCrumbByIndex", k, amount, 0, NoInfo)
  /\ UNCHANGED holeOpenSet
  /\ UNCHANGED GameVars

GDecayOneCrumb(pick) ==
  /\ \E g \in {decayOneCrumbIn([crumbs |-> crumbs, ringSet |-> ringSet], pick)} :
       /\ crumbs' = g.crumbs
       /\ ringSet' = g.ringSet
  /\ lastOp' = Op("decayOneCrumb", pick.c, pick.r, 0, NoInfo)
  /\ UNCHANGED holeOpenSet
  /\ UNCHANGED GameVars

GridDraws == { [u1 |-> 0, u2 |-> 0, c |-> c, r |-> getHoleRow + 1] : c \in {1, COLS - 5} }

GridAdd == \E c \in GridCols, r \in GridRows, st \in Strengths : GAddCrumb(c, r, st)
GridWeaken == \E c \in GridCols, r \in GridRows, a \in Amounts : GWeakenCrumb(c, r, a)
GridWeakenByIndex == \E k \in GridIndexes, a \in Amounts : GWeakenCrumbByIndex(k, a)
GridDecay == \E pick \in GridDraws : GDecayOneCrumb(pick)
GridTick == Update(3, {NoJitter}, Noises, GridDraws, GridTime)
GridWish == SetWish(1, 0)

GridNext ==
  \/ GClear
  \/ GBuildHoleBarrier
  \/ GridAdd
  \/ GridWeaken
  \/ GridWeakenByIndex
  \/ GridDecay
  \/ GridTick
  \/ GridWish

GridSpec == Init /\ [][GridNext]_vars

(***************************************************************************)
(* The end-to-end run: a game reset to level 1 whose seeker is steered      *)
(* left on every tick (step(0, dt)).  The decay draws are the two barrier   *)
(* cells of the seeker's row.                                               *)
(***************************************************************************)
InitAt(s) ==
  /\ crumbs = s.crumbs
  /\ ringSet = s.ringSet
  /\ holeOpenSet = s.holeOpenSet
  /\ player = s.player
  /\ cats = s.cats
  /\ level = s.level
  /\ running = s.running
  /\ timeAlive = s.timeAlive
  /\ decayAccum = s.decayAccum
  /\ result = NoResult

ChaseInit ==
  /\ InitAt(reset(constructed, 1, <<NoJitter>>))
  /\ lastOp = Op("reset", 1, 0, 0, NoInfo)

ChaseStep == \E dt \in Dts : Step(0, dt, Jitters, Noises, DecayDraws, ChaseTime)

ChaseSpec == ChaseInit /\ [][ChaseStep]_vars

(***************************************************************************)
(* A level with two hunters: the state update leaves when level 2 is won    *)
(* (level 3 of the table), then input and ticks.                            *)
(***************************************************************************)
PairLevel == 3

PairInit ==
  /\ InitAt(startLevel([constructed EXCEPT !.level = PairLevel], FALSE,
                       [i \in 1 .. getLevelConfig(PairLevel).cats |-> NoJitter]))
  /\ lastOp = Op("startLevel", 0, 0, 0, NoInfo)

\* the indexes of stepActions and one to either side of them
StepInputs == -1 .. Len(stepActions)

PairStep == \E a \in StepInputs, dt \in Dts :
              Step(a, dt, {NoJitter}, Noises, DecayDraws, PairTime)
PairRestart == StartLevel(FALSE, {NoJitter})

PairNext == PairStep \/ PairRestart

PairSpec == PairInit /\ [][PairNext]_vars

(***************************************************************************)
(* The seeker walls itself in: from its spawn cell it goes down, right,     *)
(* down and left, and then pushes left against the barrier, its own trail   *)
(* behind and above it.  timeAlive, which update only adds to, is held at   *)
(* TrapTime so that the run can go on for ever.  Each decay draws one of    *)
(* TrapDraws; the draws are fair.                                           *)
(***************************************************************************)
spawnCell == cellAt(getPlayerSpawnX, getPlayerSpawnY)

\* the first column to the right of the barrier
trapCol == 1 + (CHOOSE c \in 0 .. COLS : /\ \E p \in BarrierCells : p[1] = c
                                         /\ ~(\E p \in BarrierCells : p[1] > c))

\* the cell the seeker ends in, its neighbours U (above), R (right), D (below)
trapCell == [c |-> trapCol, r |-> spawnCell.r + 2]

\* the index into stepActions that the seeker plays in a cell:
\* left along the spawn row, down to U, right, down to R, then (where there
\* is a row below the trap cell) down, left to D and up, else left; in the
\* trap cell it pushes left, and it stops once it is out to the left
routeAction(cell) ==
  LET dc == cell.c - trapCell.c
      dr == cell.r - trapCell.r
  IN IF dc < 0 THEN 4
     ELSE IF dr = -2 THEN (IF dc > 0 THEN 0 ELSE 3)
     ELSE IF dr = -1 THEN (IF dc = 0 THEN 1 ELSE 3)
     ELSE IF dr = 0 /\ dc = 1 THEN (IF inBounds(cell.c, cell.r + 1) THEN 3 ELSE 0)
     ELSE IF dr = 1 /\ dc = 0 THEN 2
     ELSE 0

\* the cell a decay call draws on a tick: the top right corner, which
\* never holds a crumb, or, once the seeker is in the trap cell or to the
\* left of it, one of the four cells next to the seeker's
TrapDirs == { <<0, 0>>, <<-1, 0>>, <<1, 0>>, <<0, -1>>, <<0, 1>> }

trapPick(d) ==
  LET cell == cellAt(player.x, player.y)
  IN IF cell.r = trapCell.r /\ cell.c <= trapCell.c /\ d # <<0, 0>>
     THEN [u1 |-> 0, u2 |-> 0, c |-> cell.c + d[1], r |-> cell.r + d[2]]
     ELSE [u1 |-> 0, u2 |-> 0, c |-> COLS - 1, r |-> 0]

TrapStep(d) ==
  /\ inBounds(trapPick(d).c, trapPick(d).r)
  /\ \E s \in {[State EXCEPT !.player = applyAction(player, routeAction(cellAt(player.x, player.y))),
                             !.timeAlive = Min2(timeAlive, TrapTime - 3)]} :
       UpdateFrom(s, 3, {NoJitter}, Noises, {trapPick(d)}, TrapTime, "step",
                  routeAction(cellAt(player.x, player.y)))

TrapNext == \E d \in TrapDirs : TrapStep(d)

\* a tick whose decay call draws a cell next to the seeker that holds a crumb
TrapFree ==
  \E d \in TrapDirs :
    /\ isCrumbIn(crumbs, trapPick(d).c, trapPick(d).r)
    /\ TrapStep(d)
    /\ lastOp'.info.decays > 0

\* the host calls update on every frame; of the draws of Math.random that
\* are possible again and again, each is made at some time
TrapSpec ==
  /\ ChaseInit
  /\ [][TrapNext]_vars
  /\ WF_vars(TrapNext)
  /\ SF_vars(TrapFree)

(***************************************************************************)
(* Properties of the grid                                                  *)
(***************************************************************************)
StrengthsOK ==
  /\ \A k \in Cells : crumbs[k] >= 0
  /\ \A k \in ringSet : k \in Cells /\ crumbs[k] > 0

WeakeningOps == {"weakenCrumb", "weakenCrumbByIndex", "decayOneCrumb", "update"}

RingFollowsStrength ==
  lastOp'.op \in WeakeningOps =>
    \A k \in ringSet : /\ crumbs'[k] = 0 => k \notin ringSet'
                       /\ crumbs'[k] > 0 => k \in ringSet'

\* C9: after any sequence of clear, buildHoleBarrier, addCrumb, weakenCrumb,
\* weakenCrumbByIndex, decayOneCrumb and ticks every strength is >= 0 and
\* every index in ringSet has a strength > 0; an operation that weakens a
\* ring cell to exactly 0 takes its index out of ringSet in the same
\* operation, and one that leaves it above 0 leaves the index in ringSet.
C9_RingSetTracksStrength == []StrengthsOK /\ [][RingFollowsStrength]_vars

\* C9 witness: weakenCrumb by 1 has left a barrier cell that held 2 at 1,
\* still in ringSet
C9_Witness ==
  /\ lastOp.op = "weakenCrumb" /\ lastOp.a = 1 /\ lastOp.b = getHoleRow + 1 /\ lastOp.c = 1
  /\ crumbs[idx(1, getHoleRow + 1)] = 1
  /\ idx(1, getHoleRow + 1) \in ringSet

AddCrumbSetsMax ==
  (lastOp'.op = "addCrumb" /\ inBounds(lastOp'.a, lastOp'.b)) =>
    LET k == idx(lastOp'.a, lastOp'.b)
        st == lastOp'.c
    IN /\ crumbs'[k] = (IF crumbs[k] >= st THEN crumbs[k] ELSE st)
       /\ crumbs'[k] >= crumbs[k]
       /\ st > crumbs[k] => crumbs'[k] = st
       /\ \A j \in Cells \ {k} : crumbs'[j] = crumbs[j]
       /\ ringSet' = ringSet

\* C10: addCrumb(c, r, s) on a cell inside the grid sets its strength to
\* the larger of the old strength and s: it never lowers a strength, raises
\* it when s is larger, and changes no other cell and not ringSet.
C10_AddCrumbIsMax == [][AddCrumbSetsMax]_vars

\* C10 witness: addCrumb with strength 1 on the spawn cell holding 2 has
\* left it at 2
C10_Witness ==
  /\ lastOp.op = "addCrumb" /\ lastOp.a = COLS - 5 /\ lastOp.b = getHoleRow + 1 /\ lastOp.c = 1
  /\ crumbs[idx(COLS - 5, getHoleRow + 1)] = 2

(***************************************************************************)
(* Properties of the game under Spec                                       *)
(***************************************************************************)
GameFields ==
  <<crumbs, ringSet, holeOpenSet, player, cats, level, running, timeAlive, decayAccum>>

StoppedUpdateIsNoOp ==
  (lastOp'.op = "update" /\ ~running) => (result' = NoResult /\ UNCHANGED GameFields)
CaughtStops == (lastOp'.op = "update" /\ result'.caught) => (running /\ ~running')
RestartRuns == lastOp'.op \in {"reset", "startLevel"} => running'
OnlyRestartRuns == (~running /\ running') => lastOp'.op \in {"reset", "startLevel"}

\* C1: once a tick has reported caught the game is stopped; every later
\* update(dt) returns {caught: false, levelComplete: false} and changes no
\* field of the game, until reset or startLevel is called, after which the
\* game is running again.
C1_StoppedUntilRestart ==
  [][StoppedUpdateIsNoOp /\ CaughtStops /\ RestartRuns /\ OnlyRestartRuns]_vars

\* C1 witness: an update called on the stopped game after the catch
C1_Witness ==
  /\ ~running
  /\ lastOp.op = "update"
  /\ result = NoResult
  /\ timeAlive > 0

BarrierIndexes == { idx(p[1], p[2]) : p \in BarrierCells }

\* the state every reset leaves, the hunters' jitter apart
FreshlyReset ==
  /\ \A k \in Cells : crumbs[k] = (IF k \in BarrierIndexes THEN RING_CRUMB_STRENGTH ELSE 0)
  /\ ringSet = BarrierIndexes
  /\ holeOpenSet = { idx(HOLE_COLUMN, r) : r \in holeRmin .. holeRmax }
  /\ player = [x |-> getPlayerSpawnX, y |-> getPlayerSpawnY, dirX |-> 0, dirY |-> 0,
               wishX |-> 0, wishY |-> 0, wishTimer |-> 0]
  /\ Len(cats) = LEVEL_CONFIG[level].cats
  /\ \A i \in 1 .. Len(cats) :
       /\ cats[i].path = << >>
       /\ cats[i].pathTimer = 0
       /\ ~cats[i].nan
       /\ cats[i].lastCell = [c |-> -1, r |-> -1, nan |-> FALSE]
       /\ cats[i].speedCells = PLAYER_SPEED_CELLS * LEVEL_CONFIG[level].speedFactor
       /\ cats[i] = [fromSpawnFraction(CAT_SPAWN_GRID[i][1], CAT_SPAWN_GRID[i][2],
                                       cats[i].speedCells, cats[i].crumbSpeedFactor, i - 1,
                                       NoJitter)
                       EXCEPT !.goalJitter = cats[i].goalJitter]
  /\ timeAlive = 0
  /\ decayAccum = 0
  /\ running

\* C4: reset leaves, whatever the state it is called in, the state the
\* reset of a fresh game leaves (strengths 0 but for the rebuilt barrier,
\* ringSet and goalOpenSet rebuilt, seeker at its spawn with zero dir, wish
\* and wishTimer, hunters at their spawns with empty path and zero path
\* timer, timeAlive 0, decayAccum 0, running), the hunters' jitter apart;
\* so a second reset changes nothing but that jitter.
C4_ResetComplete ==
  [][lastOp'.op = "reset" => (FreshlyReset' /\ level' = 1)]_vars

\* C4 witness: reset called on a game a hunter had stopped
C4_Witness ==
  /\ lastOp.op = "reset"
  /\ result.caught
  /\ running

\* C5: reset(L) starts the game at level L, with the hunters of level L's
\* configuration, for every L of the level table.
C5_ResetStartsAtLevel ==
  [][lastOp'.op = "reset" =>
       (level' = lastOp'.a /\ Len(cats') = LEVEL_CONFIG[lastOp'.a].cats)]_vars

(***************************************************************************)
(* Properties of the tick                                                  *)
(***************************************************************************)
\* the game value update works on in a step: the state with the action's input
afterInput == [State EXCEPT !.player = applyAction(player, lastOp'.a)]

\* a running tick whose seeker ends its movement in a hole cell
WinTick == lastOp'.op = "step" /\ running /\ seekerPhase(afterInput, lastOp'.b).won

\* C2: on a running tick in which the seeker's cell after movement is a hole
\* cell the level goes up by exactly 1, the level is restarted (crumbs
\* cleared and barrier rebuilt, seeker and hunters respawned for the new
\* level, timeAlive and the decay accumulator 0), the tick reports
\* levelComplete and not caught, no hunter is updated and nothing decays.
C2_WinRestartsNextLevel ==
  [][WinTick => /\ level' = level + 1
                /\ FreshlyReset'
                /\ result' = [caught |-> FALSE, levelComplete |-> TRUE]
                /\ lastOp'.info.updated = 0
                /\ lastOp'.info.decays = 0]_vars

\* C2 witness: the tick that won level 1
C2_Witness ==
  /\ lastOp.op = "step"
  /\ result.levelComplete
  /\ level = 2
  /\ Len(cats) = LEVEL_CONFIG[2].cats

\* C3: the hunters are updated in array order; on the tick in which hunter k
\* catches the seeker the hunters after k are left as they were, no decay
\* runs, the tick reports caught and the game stops running.
C3_CatchEndsTheTick ==
  [][(lastOp'.op = "step" /\ result'.caught) =>
       /\ lastOp'.info.updated \in 1 .. Len(cats)
       /\ Len(cats') = Len(cats)
       /\ \A j \in 1 .. Len(cats) :
            /\ j < lastOp'.info.updated =>
                 (cats'[j].pathTimer # cats[j].pathTimer /\ ~hasCaughtPlayer(cats'[j], player'))
            /\ j = lastOp'.info.updated => hasCaughtPlayer(cats'[j], player')
            /\ j > lastOp'.info.updated => cats'[j] = cats[j]
       /\ Len(lastOp'.info.speeds) = lastOp'.info.updated
       /\ lastOp'.info.decays = 0
       /\ decayAccum' = decayAccum
       /\ running /\ ~running'
       /\ result' = [caught |-> TRUE, levelComplete |-> FALSE]]_vars

\* C3 witness: of two hunters the first has caught the seeker
C3_Witness ==
  /\ result.caught
  /\ Len(cats) = 2
  /\ lastOp.info.updated = 1
  /\ ~running

\* C6: the speed calculateSpeed gives every hunter that startLevel spawned,
\* and the hunter's position after moving, are finite numbers.
C6_HunterSpeedFinite ==
  /\ \A i \in 1 .. Len(cats) : ~cats[i].nan
  /\ \A j \in 1 .. Len(lastOp.info.speeds) : ~lastOp.info.speeds[j].nan

seekerCell == cellAt(player.x, player.y)

blocking(c, r) == ~inBounds(c, r) \/ isCrumbIn(crumbs, c, r)

Surrounded ==
  /\ blocking(seekerCell.c - 1, seekerCell.r)
  /\ blocking(seekerCell.c + 1, seekerCell.r)
  /\ blocking(seekerCell.c, seekerCell.r - 1)
  /\ blocking(seekerCell.c, seekerCell.r + 1)

\* C8: while all four cells next to the seeker are blocking no tick moves
\* the seeker out of its cell, and, the decay draws being fair and no hunter
\* catching, one of the four stops being blocking, on a tick that decays.
C8_TrappedUntilDecay ==
  /\ [][Surrounded => seekerCell' = seekerCell]_vars
  /\ [][(Surrounded /\ ~Surrounded') => lastOp'.info.decays > 0]_vars
  /\ (Surrounded ~> (~Surrounded \/ ~running))

\* C8 witness: the seeker in the trap cell, walled in, the game running
C8_Witness ==
  /\ Surrounded
  /\ running
  /\ seekerCell = trapCell
  /\ isCrumbIn(crumbs, trapCell.c, trapCell.r - 1)
  /\ idx(trapCell.c - 1, trapCell.r) \in ringSet

(***************************************************************************)
(* Out-of-bounds input to the grid                                         *)
(***************************************************************************)
GridFields == <<crumbs, ringSet, holeOpenSet>>

OutOfBoundsIgnored ==
  /\ (lastOp'.op \in {"addCrumb", "weakenCrumb"} /\ ~inBounds(lastOp'.a, lastOp'.b))
       => GridFields' = GridFields
  /\ (lastOp'.op = "weakenCrumbByIndex" /\ lastOp'.a \notin 0 .. (N - 1))
       => GridFields' = GridFields

OutsideBlocks ==
  \A c \in -1 .. COLS, r \in -1 .. ROWS : ~inBounds(c, r) => isCrumbIn(crumbs, c, r)

\* C11: addCrumb and weakenCrumb with coordinates outside the grid, and
\* weakenCrumbByIndex with an index outside 0..cols*rows-1, leave every
\* strength, ringSet and holeOpenSet as they were; isCrumb is true of every
\* cell outside the grid.
C11_OutOfBoundsIgnored == [][OutOfBoundsIgnored]_vars /\ []OutsideBlocks

\* C11 witness: addCrumb left of column 0 with a positive strength, on a grid
\* that has its barrier; the cell with the flat index of (-1, r) is still empty
C11_Witness ==
  /\ lastOp.op = "addCrumb" /\ lastOp.a = -1 /\ lastOp.c > 0
  /\ idx(-1, lastOp.b) \in Cells /\ crumbs[idx(-1, lastOp.b)] = 0
  /\ ringSet # {}

(***************************************************************************)
(* aStar of the core library (startC, startR, goalC, goalR, cols, rows,    *)
(* getCost), as a machine of its own: the call sets up the arrays, every   *)
(* turn of the while (true) loop is a step, and the return rebuilds the    *)
(* path.  The call in progress is held in lastOp: a and b are the start    *)
(* and goal indexes, c the number of turns entered, info the cost table    *)
(* and the arrays; the game's own variables stay as constructed.           *)
(***************************************************************************)
AStarCols == 3
AStarRows == 3
MaxSpecial == 2

coreIdx(c, r, cols) == r * cols + c
coreInBounds(c, r, cols, rows) == c >= 0 /\ r >= 0 /\ c < cols /\ r < rows

\* the arrays g, f, came, closed, open before the loop
coreArrays(startC, startR, goalC, goalR, cols, rows) ==
  LET start == coreIdx(startC, startR, cols)
      cells == 0 .. (cols * rows - 1)
  IN [g |-> [k \in cells |-> IF k = start THEN 0 ELSE Infinity],
      f |-> [k \in cells |-> IF k = start THEN heuristic(startC, startR, goalC, goalR)
                                          ELSE Infinity],
      came |-> [k \in cells |-> -1],
      open |-> {start},
      closed |-> {},
      current |-> -1,
      done |-> FALSE]

\* variant: the first open cell, whatever its f
coreFirstOpen(st) == CHOOSE i \in st.open : \A j \in st.open : i <= j

\* the scan for the open cell of lowest f, the first one among equals
coreLowestF(st) ==
  CHOOSE i \in st.open :
    \A j \in st.open : st.f[i] < st.f[j] \/ (st.f[i] = st.f[j] /\ i <= j)

\* stepCost === Infinity: continue
corePassable(cost, ni) == cost[ni] # Infinity

\* variant: a closed cell is looked at again
coreNeverClosed(st, ni) == FALSE

\* if (closed[ni]) continue
coreIsClosed(st, ni) == ni \in st.closed

\* one turn of the while (true) loop
coreTurn(st, goalC, goalR, cols, rows, cost) ==
  IF st.open = {} THEN [st EXCEPT !.current = -1, !.done = TRUE]
  ELSE Bind(coreLowestF(st), LAMBDA current :
         IF current = coreIdx(goalC, goalR, cols)
         THEN [st EXCEPT !.open = st.open \ {current}, !.closed = st.closed \cup {current},
                         !.current = current, !.done = TRUE]
         ELSE Bind({ coreIdx(q[1], q[2], cols) :
                       q \in { p \in { <<(current % cols) + neighbors[n][1],
                                         (current \div cols) + neighbors[n][2]>> :
                                         n \in 1 .. Len(neighbors) } :
                                 /\ coreInBounds(p[1], p[2], cols, rows)
                                 /\ ~coreIsClosed(st, coreIdx(p[1], p[2], cols))
                                 /\ corePassable(cost, coreIdx(p[1], p[2], cols))
                                 /\ st.g[current] + cost[coreIdx(p[1], p[2], cols)]
                                      < st.g[coreIdx(p[1], p[2], cols)] } }, LAMBDA hit :
                [g |-> [k \in DOMAIN st.g |-> IF k \in hit THEN st.g[current] + cost[k]
                                                        ELSE st.g[k]],
                 f |-> [k \in DOMAIN st.f |->
                          IF k \in hit
                          THEN st.g[current] + cost[k]
                                 + heuristic(k % cols, k \div cols, goalC, goalR)
                          ELSE st.f[k]],
                 came |-> [k \in DOMAIN st.came |-> IF k \in hit THEN current ELSE st.came[k]],
                 open |-> (st.open \ {current}) \cup hit,
                 closed |-> st.closed \cup {current},
                 current |-> current,
                 done |-> FALSE]))

\* variant: the reconstruction stops only at -1, so the start is pushed too
RECURSIVE corePathToRoot(_, _, _, _)
corePathToRoot(came, start, node, cols) ==
  IF node = -1 THEN << >>
  ELSE corePathToRoot(came, start, came[node], cols)
         \o << [c |-> node % cols, r |-> node \div cols] >>

\* the reconstruction: node = goal, then came[node] until start or -1;
\* path.push, path.reverse and the map to {c, r}
RECURSIVE corePath(_, _, _, _)
corePath(came, start, node, cols) ==
  IF node = start \/ node = -1 THEN << >>
  ELSE corePath(came, start, came[node], cols) \o << [c |-> node % cols, r |-> node \div cols] >>

\* what aStar returns once the loop is left
coreReturn(st, start, goal, cols) ==
  IF start = goal THEN << >>
  ELSE IF st.came[goal] = -1 THEN << >>
  ELSE corePath(st.came, start, goal, cols)

AStarCells == 0 .. (AStarCols * AStarRows - 1)
SpecialCosts == {0, 2, 5, Infinity}
\* cost tables: 1 everywhere but in at most MaxSpecial cells
CostTables ==
  { [k \in AStarCells |-> IF k \in DOMAIN sp THEN sp[k] ELSE 1] :
      sp \in UNION { [S -> SpecialCosts] :
                       S \in { T \in SUBSET AStarCells : Cardinality(T) <= MaxSpecial } } }

AStarCall(start, goal, turns, cost, st, path) ==
  [op |-> "aStar", a |-> start, b |-> goal, c |-> turns,
   info |-> [cost |-> cost, st |-> st, path |-> path, returned |-> FALSE]]

AStarInit ==
  /\ InitAt(constructed)
  /\ \E start \in AStarCells, goal \in AStarCells, cost \in CostTables :
       lastOp = AStarCall(start, goal, 0, cost,
                          coreArrays(start % AStarCols, start \div AStarCols,
                                     goal % AStarCols, goal \div AStarCols,
                                     AStarCols, AStarRows), << >>)

\* if (start === goal) return [] comes before the loop
InLoop == lastOp.op = "aStar" /\ ~lastOp.info.returned /\ lastOp.a # lastOp.b /\ ~lastOp.info.st.done

AStarTurn ==
  /\ InLoop
  /\ lastOp' = [lastOp EXCEPT
                  !.c = @ + 1,
                  !.info.st = coreTurn(lastOp.info.st, lastOp.b % AStarCols, lastOp.b \div AStarCols,
                                       AStarCols, AStarRows, lastOp.info.cost)]
  /\ UNCHANGED <<GameFields, result>>

AStarReturn ==
  /\ lastOp.op = "aStar" /\ ~lastOp.info.returned /\ ~InLoop
  /\ lastOp' = [lastOp EXCEPT
                  !.info.returned = TRUE,
                  !.info.path = coreReturn(lastOp.info.st, lastOp.a, lastOp.b, AStarCols)]
  /\ UNCHANGED <<GameFields, result>>

AStarNext == AStarTurn \/ AStarReturn

AStarSpec == AStarInit /\ [][AStarNext]_vars /\ WF_vars(AStarNext)

(***************************************************************************)
(* Properties of aStar                                                     *)
(***************************************************************************)
Returned == lastOp.op = "aStar" /\ lastOp.info.returned
pathOf == lastOp.info.path
costOf == lastOp.info.cost
cellIndex(cell) == coreIdx(cell.c, cell.r, AStarCols)
adjacent(j, k) ==
  heuristic(j % AStarCols, j \div AStarCols, k % AStarCols, k \div AStarCols) = 1

\* the cells a 4-connected route of finite-cost cells leads to from the cells S
RECURSIVE routeClosure(_, _)
routeClosure(S, cost) ==
  Bind(S \cup { k \in AStarCells : cost[k] # Infinity /\ \E j \in S : adjacent(j, k) },
       LAMBDA S2 : IF S2 = S THEN S ELSE routeClosure(S2, cost))

\* the least total step cost from the start to every cell, n rounds of relaxation
RECURSIVE leastCost(_, _, _)
leastCost(D, cost, n) ==
  IF n = 0 THEN D
  ELSE Bind([k \in AStarCells |->
               LET via == { D[j] + cost[k] : j \in { i \in AStarCells : adjacent(i, k) } }
                   best == CHOOSE v \in via \cup {D[k]} : \A w \in via \cup {D[k]} : v <= w
               IN IF cost[k] = Infinity \/ best >= Infinity THEN D[k] ELSE best],
            LAMBDA D2 : IF D2 = D THEN D ELSE leastCost(D2, cost, n - 1))

RECURSIVE pathCost(_, _)
pathCost(path, cost) ==
  IF path = << >> THEN 0 ELSE cost[cellIndex(Head(path))] + pathCost(Tail(path), cost)

\* C12: a non-empty path returned by aStar does not contain the start, ends
\* at the goal, starts at a 4-neighbour of the start, goes from 4-neighbour
\* to 4-neighbour, stays inside the grid and has no cell of infinite cost.
C12_PathWellFormed ==
  (Returned /\ pathOf # << >>) =>
    /\ \A i \in 1 .. Len(pathOf) :
         /\ coreInBounds(pathOf[i].c, pathOf[i].r, AStarCols, AStarRows)
         /\ cellIndex(pathOf[i]) # lastOp.a
         /\ costOf[cellIndex(pathOf[i])] # Infinity
    /\ cellIndex(pathOf[Len(pathOf)]) = lastOp.b
    /\ adjacent(lastOp.a, cellIndex(pathOf[1]))
    /\ \A i \in 1 .. (Len(pathOf) - 1) : adjacent(cellIndex(pathOf[i]), cellIndex(pathOf[i + 1]))

\* C12 witness: a returned path of four cells or more on a table with a wall
C12_Witness ==
  /\ Returned /\ Len(pathOf) >= 4
  /\ \E k \in AStarCells : costOf[k] = Infinity

\* C13: aStar returns the empty path exactly when start = goal or no
\* 4-connected route of finite-cost cells leads from start to goal.
C13_EmptyIffNoRoute ==
  Returned =>
    ((pathOf = << >>) <=> (lastOp.a = lastOp.b \/ lastOp.b \notin routeClosure({lastOp.a}, costOf)))

\* C13 witness: the goal is walled off and the empty path is returned after
\* some turns of the loop
C13_Witness ==
  /\ Returned /\ pathOf = << >> /\ lastOp.a # lastOp.b /\ lastOp.c >= 3
  /\ costOf[lastOp.b] # Infinity

\* C14: when every cost is >= 1, the total step cost of the returned path is
\* the least total step cost of any 4-connected route from start to goal.
C14_PathIsCheapest ==
  (Returned /\ pathOf # << >> /\ \A k \in AStarCells : costOf[k] >= 1) =>
    pathCost(pathOf, costOf)
      = leastCost([k \in AStarCells |-> IF k = lastOp.a THEN 0 ELSE Infinity],
                  costOf, AStarCols * AStarRows)[lastOp.b]

\* C14 witness: a detour of four steps between two cells two apart, around a
\* cell of cost 5, on a table without walls
C14_Witness ==
  /\ Returned /\ Len(pathOf) = 4
  /\ \A k \in AStarCells : costOf[k] >= 1 /\ costOf[k] # Infinity
  /\ heuristic(lastOp.a % AStarCols, lastOp.a \div AStarCols,
               lastOp.b % AStarCols, lastOp.b \div AStarCols) = 2

TurnClosesOne ==
  LET st == lastOp.info.st
      st2 == lastOp'.info.st
  IN (InLoop /\ lastOp'.c = lastOp.c + 1) =>
       /\ st.closed \subseteq st2.closed
       /\ st2.current # -1 =>
            /\ st2.current \in st.open /\ st2.current \notin st.closed
            /\ st2.closed = st.closed \cup {st2.current}
            /\ st2.current \notin st2.open
       /\ st2.current = -1 => (st.open = {} /\ st2.done)

LoopBounded ==
  lastOp.op = "aStar" =>
    /\ lastOp.c <= AStarCols * AStarRows
    /\ lastOp.info.st.open \cap lastOp.info.st.closed = {}
    /\ Len(pathOf) <= AStarCols * AStarRows

\* C15: every call of aStar returns; every turn of the loop that finds an
\* open cell closes exactly that cell, a closed cell is never open again,
\* the loop is entered at most cols*rows times and the path has at most
\* cols*rows cells.
C15_AStarTerminates == []LoopBounded /\ [][TurnClosesOne]_vars /\ <>Returned

\* C15 witness: a call that returned after cols*rows turns of the loop
C15_Witness == Returned /\ lastOp.c = AStarCols * AStarRows

(***************************************************************************)
(* moveWithCollision of the core library (x, y, dx, dy, tileSize, cols,    *)
(* rows, isCrumbBlocking).  The predicate is a record: supplied, and the   *)
(* set of in-bounds cell indexes it is true of.  EPS (1e-6 pixel) is below *)
(* the resolution of the coordinates and is 0 here.  The call is held in   *)
(* lastOp: a and b are dx and dy, info the predicate, the position the     *)
(* call started from and the position returned.                            *)
(***************************************************************************)
MoveCols == 3
MoveRows == 3
MoveTile == 4
MaxBlocked == 3
MoveCalls == 1

coreCellAt(x, y, tileSize) == [c |-> x \div tileSize, r |-> y \div tileSize]

\* isCrumbBlocking && isCrumbBlocking(c, r)
coreBlocking(pred, c, r, cols, rows) ==
  pred.supplied /\ coreInBounds(c, r, cols, rows) /\ coreIdx(c, r, cols) \in pred.cells

\* variant: the move is not held at the centre
coreNoClamp(n, center, dir) == n

\* dir > 0 ? Math.min(n, center) : Math.max(n, center)
coreClamp(n, center, dir) == IF dir > 0 THEN Min2(n, center) ELSE Max2(n, center)

\* variant: the destination cell is not looked at
coreAlwaysCommit(pred, cell, cols, rows) == TRUE

\* !cellBlocked && inBounds(cell.c, cell.r, cols, rows)
coreCanCommit(pred, cell, cols, rows) ==
  ~coreBlocking(pred, cell.c, cell.r, cols, rows) /\ coreInBounds(cell.c, cell.r, cols, rows)

\* the horizontal part: the new x
coreMoveX(x, y, dx, tileSize, cols, rows, pred) ==
  IF dx = 0 THEN x
  ELSE LET cc == coreCellAt(x, y, tileSize)
           centerX == ((2 * cc.c + 1) * tileSize) \div 2
           dir == Sign(dx)
           nextBlocked == \/ ~coreInBounds(cc.c + dir, cc.r, cols, rows)
                          \/ coreBlocking(pred, cc.c + dir, cc.r, cols, rows)
           nx == IF nextBlocked THEN coreClamp(x + dx, centerX, dir) ELSE x + dx
           newX == IF coreCanCommit(pred, coreCellAt(nx, y, tileSize), cols, rows) THEN nx ELSE x
       IN IF nextBlocked /\ ((dir > 0 /\ newX >= centerX) \/ (dir < 0 /\ newX <= centerX))
          THEN centerX ELSE newX

\* the vertical part: the new y, from the new x
coreMoveY(newX, y, dy, tileSize, cols, rows, pred) ==
  IF dy = 0 THEN y
  ELSE LET cc == coreCellAt(newX, y, tileSize)
           centerY == ((2 * cc.r + 1) * tileSize) \div 2
           dir == Sign(dy)
           nextBlocked == \/ ~coreInBounds(cc.c, cc.r + dir, cols, rows)
                          \/ coreBlocking(pred, cc.c, cc.r + dir, cols, rows)
           ny == IF nextBlocked THEN coreClamp(y + dy, centerY, dir) ELSE y + dy
           newY == IF coreCanCommit(pred, coreCellAt(newX, ny, tileSize), cols, rows) THEN ny ELSE y
       IN IF nextBlocked /\ ((dir > 0 /\ newY >= centerY) \/ (dir < 0 /\ newY <= centerY))
          THEN centerY ELSE newY

moveWithCollision(x, y, dx, dy, tileSize, cols, rows, pred) ==
  Bind(coreMoveX(x, y, dx, tileSize, cols, rows, pred), LAMBDA newX :
    [x |-> newX, y |-> coreMoveY(newX, y, dy, tileSize, cols, rows, pred)])

MoveCells == 0 .. (MoveCols * MoveRows - 1)
MoveCoordsX == 0 .. (MoveCols * MoveTile - 1)
MoveCoordsY == 0 .. (MoveRows * MoveTile - 1)
\* less than half a tile, half a tile, and more than a tile, both ways
MoveDeltas == {-(MoveTile + 1), -(MoveTile \div 2), -1, 0, 1, MoveTile \div 2, MoveTile + 1}
Predicates ==
  { [supplied |-> sup, cells |-> S] :
      sup \in BOOLEAN,
      S \in { T \in SUBSET MoveCells : Cardinality(T) <= MaxBlocked } }

\* the cell of the position is in bounds and the predicate is false of it
legalAt(x, y, pred) ==
  LET cell == coreCellAt(x, y, MoveTile)
  IN /\ coreInBounds(cell.c, cell.r, MoveCols, MoveRows)
     /\ ~(pred.supplied /\ coreIdx(cell.c, cell.r, MoveCols) \in pred.cells)

\* n: the number of calls made so far
MoveCall(dx, dy, n, pred, from, to) ==
  [op |-> "moveWithCollision", a |-> dx, b |-> dy, c |-> n,
   info |-> [pred |-> pred, from |-> from, to |-> to]]

MoveInit ==
  /\ InitAt(constructed)
  /\ \E pred \in Predicates, x \in MoveCoordsX, y \in MoveCoordsY :
       /\ pred.supplied \/ pred.cells = {}
       /\ legalAt(x, y, pred)
       /\ lastOp = MoveCall(0, 0, 0, pred, [x |-> x, y |-> y], [x |-> x, y |-> y])

\* the next call starts where the last one ended
Move(dx, dy) ==
  /\ lastOp.op = "moveWithCollision" /\ lastOp.c < MoveCalls
  /\ lastOp' = MoveCall(dx, dy, lastOp.c + 1, lastOp.info.pred, lastOp.info.to,
                        moveWithCollision(lastOp.info.to.x, lastOp.info.to.y, dx, dy,
                                          MoveTile, MoveCols, MoveRows, lastOp.info.pred))
  /\ UNCHANGED <<GameFields, result>>

MoveNext == \E dx \in MoveDeltas, dy \in MoveDeltas : Move(dx, dy)

MoveSpec == MoveInit /\ [][MoveNext]_vars

(***************************************************************************)
(* Properties of moveWithCollision                                         *)
(***************************************************************************)
moveFrom == lastOp'.info.from
moveTo == lastOp'.info.to
movePred == lastOp'.info.pred
moveCenter(k) == ((2 * k + 1) * MoveTile) \div 2
moveWall(c, r) ==
  ~coreInBounds(c, r, MoveCols, MoveRows) \/ coreBlocking(movePred, c, r, MoveCols, MoveRows)

\* one axis, towards a neighbour that is a wall: never past the centre, and
\* on the centre when from + d reaches it
HeldAtCenter(from, to, d, center) ==
  /\ d > 0 => (to <= center /\ (from + d >= center => to = center))
  /\ d < 0 => (to >= center /\ (from + d <= center => to = center))

StopsAtCenter ==
  lastOp'.op = "moveWithCollision" =>
    LET cc == coreCellAt(moveFrom.x, moveFrom.y, MoveTile)
        dx == lastOp'.a
        dy == lastOp'.b
    IN /\ (dx # 0 /\ dy = 0 /\ moveWall(cc.c + Sign(dx), cc.r))
            => (HeldAtCenter(moveFrom.x, moveTo.x, dx, moveCenter(cc.c)) /\ moveTo.y = moveFrom.y)
       /\ (dy # 0 /\ dx = 0 /\ moveWall(cc.c, cc.r + Sign(dy)))
            => (HeldAtCenter(moveFrom.y, moveTo.y, dy, moveCenter(cc.r)) /\ moveTo.x = moveFrom.x)

\* C16: a move along one axis from a legal cell towards a neighbouring cell
\* that is blocking or out of bounds returns a coordinate that is not past
\* the centre of the current cell in the direction of travel, and that is
\* the centre whenever the coordinate plus the delta reaches or passes it.
C16_StopsAtCenter == [][StopsAtCenter]_vars

\* C16 witness: a move to the right from left of the centre, against a
\* blocking cell, by more than the distance to the centre: held on the centre
C16_Witness ==
  /\ lastOp.op = "moveWithCollision" /\ lastOp.a > 0 /\ lastOp.b = 0
  /\ lastOp.info.from.x < lastOp.info.to.x
  /\ lastOp.info.from.x + lastOp.a > lastOp.info.to.x
  /\ LET cc == coreCellAt(lastOp.info.from.x, lastOp.info.from.y, MoveTile)
     IN /\ coreBlocking(lastOp.info.pred, cc.c + 1, cc.r, MoveCols, MoveRows)
        /\ lastOp.info.to.x = ((2 * cc.c + 1) * MoveTile) \div 2

\* the coordinate the axis would take: from + d, held at the centre when the
\* neighbour in the direction of d is a wall
moveTarget(from, d, center, wall) ==
  IF ~wall THEN from + d
  ELSE IF d > 0 THEN (IF from + d < center THEN from + d ELSE center)
  ELSE (IF from + d > center THEN from + d ELSE center)

KeepsWhenIllegal ==
  (lastOp'.op = "moveWithCollision" /\ legalAt(moveFrom.x, moveFrom.y, movePred)) =>
    LET dx == lastOp'.a
        dy == lastOp'.b
        cx == coreCellAt(moveFrom.x, moveFrom.y, MoveTile)
        nx == moveTarget(moveFrom.x, dx, moveCenter(cx.c), moveWall(cx.c + Sign(dx), cx.r))
        cy == coreCellAt(moveTo.x, moveFrom.y, MoveTile)
        ny == moveTarget(moveFrom.y, dy, moveCenter(cy.r), moveWall(cy.c, cy.r + Sign(dy)))
    IN /\ legalAt(moveTo.x, moveTo.y, movePred)
       /\ (dx # 0 /\ ~legalAt(nx, moveFrom.y, movePred)) => moveTo.x = moveFrom.x
       /\ (dy # 0 /\ ~legalAt(moveTo.x, ny, movePred)) => moveTo.y = moveFrom.y
       /\ dx = 0 => moveTo.x = moveFrom.x
       /\ dy = 0 => moveTo.y = moveFrom.y

\* C17: from a position whose cell is in bounds and not blocking,
\* moveWithCollision returns, for every dx and dy, a position whose cell is
\* in bounds and not blocking; an axis whose destination (the coordinate
\* after the clamp) lies in a blocking or out-of-bounds cell keeps its
\* previous coordinate.
C17_DestinationLegal == [][KeepsWhenIllegal]_vars

\* C17 witness: a move to the right by more than a tile, the neighbour free
\* and the cell beyond it blocking: x is kept
C17_Witness ==
  /\ lastOp.op = "moveWithCollision" /\ lastOp.c > 0 /\ lastOp.a > MoveTile
  /\ lastOp.info.to.x = lastOp.info.from.x
  /\ LET cc == coreCellAt(lastOp.info.from.x, lastOp.info.from.y, MoveTile)
         cd == coreCellAt(lastOp.info.from.x + lastOp.a, lastOp.info.from.y, MoveTile)
     IN /\ coreInBounds(cd.c, cd.r, MoveCols, MoveRows)
        /\ coreBlocking(lastOp.info.pred, cd.c, cd.r, MoveCols, MoveRows)
        /\ ~coreBlocking(lastOp.info.pred, cc.c + 1, cc.r, MoveCols, MoveRows)

(***************************************************************************)
(* The methods of Player, called on the seeker of a newly constructed game *)
(* in the order Game.update calls them: setWish and stop between ticks,    *)
(* then processTurns(dt), then getMovementDelta, moveAgent and snapToGrid. *)
(* The field stays empty (no trail is laid, there are no hunters).         *)
(* lastOp.info keeps the time since the wish last changed its value        *)
(* (sinceWish, which stays at TurnCap once it has reached it).             *)
(***************************************************************************)
TurnCap == 18
TurnDts == {3}
TurnWishes == { <<dx, dy>> : dx \in {-1, 0, 1}, dy \in {-1, 0, 1} }

\* from: the seeker as processTurns found it
TurnOp(name, a, b, since) ==
  Op(name, a, b, 0, [sinceWish |-> since,
                     from |-> IF name = "processTurns" THEN player ELSE playerReset])

\* the wish of player p is <<dx, dy>> already: the time since it changed runs on
sinceAfter(p, dx, dy) ==
  IF p.wishX = dx /\ p.wishY = dy THEN lastOp.info.sinceWish ELSE 0

TurnInit ==
  /\ InitAt(constructed)
  /\ lastOp = TurnOp("new", 0, 0, 0)

BetweenTicks == lastOp.op # "processTurns"

TSetWish(dx, dy) ==
  /\ BetweenTicks
  /\ player' = setWish(player, dx, dy)
  /\ lastOp' = TurnOp("setWish", dx, dy, sinceAfter(player, dx, dy))
  /\ UNCHANGED <<crumbs, ringSet, holeOpenSet, cats, level, running, timeAlive, decayAccum, result>>

TStop ==
  /\ BetweenTicks
  /\ player' = stop(player)
  /\ lastOp' = TurnOp("stop", 0, 0, sinceAfter(player, 0, 0))
  /\ UNCHANGED <<crumbs, ringSet, holeOpenSet, cats, level, running, timeAlive, decayAccum, result>>

TProcessTurns(dt) ==
  /\ BetweenTicks
  /\ player.wishTimer + dt <= TurnCap
  /\ player' = processTurns(player, dt)
  /\ lastOp' = TurnOp("processTurns", dt, 0, Min2(lastOp.info.sinceWish + dt, TurnCap))
  /\ UNCHANGED <<crumbs, ringSet, holeOpenSet, cats, level, running, timeAlive, decayAccum, result>>

\* Player.reset()
TReset ==
  /\ BetweenTicks
  /\ player' = playerReset
  /\ lastOp' = TurnOp("reset", 0, 0, 0)
  /\ UNCHANGED <<crumbs, ringSet, holeOpenSet, cats, level, running, timeAlive, decayAccum, result>>

\* the rest of the tick: getMovementDelta, moveAgent, snapToGrid
TMove ==
  /\ lastOp.op = "processTurns"
  /\ \E delta \in {getMovementDelta(player, lastOp.a)} :
       player' = snapToGrid(moveAgent(crumbs, player, delta.dx, delta.dy, TRUE))
  /\ lastOp' = TurnOp("move", lastOp.a, 0, lastOp.info.sinceWish)
  /\ UNCHANGED <<crumbs, ringSet, holeOpenSet, cats, level, running, timeAlive, decayAccum, result>>

TurnSetWish == \E w \in TurnWishes : TSetWish(w[1], w[2])
TurnTick == \E dt \in TurnDts : TProcessTurns(dt)

TurnNext == TurnSetWish \/ TStop \/ TReset \/ TurnTick \/ TMove

TurnSpec == TurnInit /\ [][TurnNext]_vars

(***************************************************************************)
(* Properties of processTurns                                              *)
(***************************************************************************)
ProcessTurnsStep == lastOp'.op = "processTurns"
moving == player.dirX # 0 \/ player.dirY # 0
wishAligned == (player.wishX = 0) # (player.wishY = 0)
\* the direction a committed wish gives
wishDir == <<Sign(player.wishX), Sign(player.wishY)>>
dirOf(p) == <<p.dirX, p.dirY>>

\* coordinate v, moving along its axis in direction d (0: not along it), is
\* within the turn tolerance of the centre of its cell or of the next one
nearCenter(v, d) ==
  \/ Abs(v - centerOf(v \div TILE)) <= getTurnEps
  \/ d # 0 /\ Abs(v - centerOf((v \div TILE) + d)) <= getTurnEps

StillCommits ==
  (ProcessTurnsStep /\ ~moving /\ wishAligned) =>
    /\ dirOf(player') = wishDir
    /\ player.wishX = 0 => (player'.x = centerOf(player.x \div TILE) /\ player'.y = player.y)
    /\ player.wishY = 0 => (player'.y = centerOf(player.y \div TILE) /\ player'.x = player.x)

\* C18: a seeker that stands still and has an axis-aligned wish commits the
\* wished direction in the next call of processTurns, wherever it stands,
\* and that call puts the coordinate of the other axis on the centre of the
\* seeker's cell.
C18_StillCommitsAtOnce == [][StillCommits]_vars

\* C18 witness: processTurns found the seeker standing off the centre of its
\* column (stopped in mid-cell) with a wish up or down, and committed it
C18_Witness ==
  /\ lastOp.op = "processTurns"
  /\ lastOp.info.from.dirX = 0 /\ lastOp.info.from.dirY = 0
  /\ lastOp.info.from.x # centerOf(lastOp.info.from.x \div TILE)
  /\ player.dirY # 0 /\ player.dirX = 0
  /\ player.x = centerOf(lastOp.info.from.x \div TILE)

\* the wish is a turn across the committed direction
wishAcross ==
  \/ player.dirX # 0 /\ player.wishX = 0 /\ player.wishY # 0
  \/ player.dirY # 0 /\ player.wishY = 0 /\ player.wishX # 0

\* the coordinate along the committed direction is out of tolerance
farFromCenters ==
  IF player.dirX # 0 THEN ~nearCenter(player.x, player.dirX)
  ELSE ~nearCenter(player.y, player.dirY)

NoEarlyTurn ==
  (ProcessTurnsStep /\ moving /\ wishAcross /\ farFromCenters
     /\ lastOp'.info.sinceWish * FORCE_TURN_NUM < HZ)
    => dirOf(player') = dirOf(player)

\* C19: a moving seeker whose wish is a turn across its direction and which
\* is out of tolerance of the centres keeps its direction in every call of
\* processTurns made less than 0.25 s after that wish was set.
C19_NoTurnBeforeTimeout == [][NoEarlyTurn]_vars

perpendicular(d, e) == d[1] * e[1] + d[2] * e[2] = 0 /\ d # <<0, 0>> /\ e # <<0, 0>>

OnlyAcross ==
  (ProcessTurnsStep /\ moving /\ dirOf(player') # dirOf(player))
    => perpendicular(dirOf(player'), dirOf(player))

\* C20 (as stated): while the seeker moves, processTurns changes the
\* committed direction only to a direction perpendicular to it; a wish for
\* the opposite direction leaves the committed direction as it is.
C20_TurnsOnlyAcross == [][OnlyAcross]_vars

TurnsToWish ==
  (ProcessTurnsStep /\ moving) =>
    /\ dirOf(player') # dirOf(player) =>
         /\ wishAligned /\ dirOf(player') = wishDir
         /\ \/ timerExpired(player.wishTimer + lastOp'.a)
            \/ player.wishX = 0 /\ nearCenter(player.x, player.dirX)
            \/ player.wishY = 0 /\ nearCenter(player.y, player.dirY)
    /\ (wishAligned /\ wishDir = <<-player.dirX, -player.dirY>>
          /\ (IF player.dirX = 0 THEN nearCenter(player.x, 0) ELSE nearCenter(player.y, 0)))
         => dirOf(player') = wishDir

\* C20 (amended): while the seeker moves, processTurns changes the committed
\* direction only to the direction of an axis-aligned wish, and, short of
\* the forced commit, only when the coordinate of the axis the wish does not
\* name is within the turn tolerance of a cell centre; a wish for the
\* opposite direction is committed like any other, at once when that
\* coordinate is on a centre.
C20_TurnsToWishWhenAligned == [][TurnsToWish]_vars

\* C20 witness: processTurns found the seeker moving down with a wish up and
\* turned it round
C20_Witness ==
  /\ lastOp.op = "processTurns"
  /\ lastOp.info.from.dirY = 1 /\ lastOp.info.from.wishY = -1 /\ lastOp.info.from.wishX = 0
  /\ player.dirY = -1 /\ player.dirX = 0

(***************************************************************************)
(* The committed direction                                                 *)
(***************************************************************************)
Units == {-1, 0, 1}

\* C21: in every state reached through reset, setWish with any pair of
\* values of -1, 0, 1 (diagonal pairs included), stop and ticks, each
\* component of the seeker's committed direction is -1, 0 or 1 and at most
\* one of them is not zero.
C21_DirectionOneAxis ==
  /\ player.dirX \in Units /\ player.dirY \in Units
  /\ player.dirX = 0 \/ player.dirY = 0

\* C21 witness: a moving seeker was given a diagonal wish and then a wish
\* across its direction, and processTurns committed the turn
C21_Witness ==
  /\ lastOp.op = "processTurns"
  /\ lastOp.info.from.dirX # 0 /\ lastOp.info.from.wishX = 0
  /\ player.dirY # 0 /\ player.dirX = 0

(***************************************************************************)
(* Game.step: the input of an action index, and the value returned         *)
(***************************************************************************)
StepTaken == lastOp'.op = "step"

\* the seeker a tick of dt leaves when the seeker is p before it
afterTick(p, dt) ==
  IF running THEN seekerPhase([State EXCEPT !.player = p], dt).s.player ELSE p

\* the wish of the action indexes 0 .. 3
wishOf(a) ==
  CASE a = 0 -> <<-1, 0>> [] a = 1 -> <<1, 0>> [] a = 2 -> <<0, -1>> [] a = 3 -> <<0, 1>>

StepInput ==
  (StepTaken /\ ~result'.levelComplete) =>
    LET a == lastOp'.a
        dt == lastOp'.b
    IN /\ a \notin 0 .. 4 => player' = afterTick(player, dt)
       /\ a \in 0 .. 3 =>
            /\ player' = afterTick([player EXCEPT !.wishX = wishOf(a)[1],
                                                   !.wishY = wishOf(a)[2]], dt)
            /\ <<player'.wishX, player'.wishY>> = wishOf(a)
       /\ a = 4 =>
            /\ player' = afterTick([player EXCEPT !.wishX = 0, !.wishY = 0,
                                                   !.dirX = 0, !.dirY = 0], dt)
            /\ <<player'.wishX, player'.wishY>> = <<0, 0>>
            /\ <<player'.dirX, player'.dirY>> = <<0, 0>>

\* C22: step with an action index outside 0 .. 4 is enabled like any other
\* step and leaves the seeker as the tick alone leaves it, wish and
\* committed direction untouched before the tick; the indexes 0, 1, 2, 3
\* set the wish (-1,0), (1,0), (0,-1), (0,1) before the tick, and 4 zeroes
\* wish and committed direction before the tick.
C22_ActionMapping == [][StepInput]_vars

\* C22 witness: a moving seeker with a wish was stepped with the index 5
\* and moved on with the wish it had
C22_Witness ==
  /\ lastOp.op = "step" /\ lastOp.a = Len(stepActions)
  /\ player.wishY = 1 /\ player.dirY = 1
  /\ player.y > getPlayerSpawnY

\* the tick reached the goal: update went on to the next level
ReachedGoal == level' = level + 1
\* the tick reported caught: update stopped the game
ReportedCaught == running /\ ~running'

StepReturn ==
  StepTaken =>
    LET ret == lastOp'.c
    IN /\ (ret.done /\ ret.reward = 100 * CENT) <=> ReachedGoal
       /\ (ret.done /\ ret.reward = -100 * CENT) <=> ReportedCaught
       /\ ret.done <=> (ReachedGoal \/ ReportedCaught)
       /\ ret.done <=> (ret.info.caught \/ ret.info.levelComplete)
       /\ ret.info.caught <=> ReportedCaught
       /\ ret.info.levelComplete <=> ReachedGoal

\* C23: step returns reward +100 with done exactly on a tick that reached
\* the goal and reward -100 with done exactly on a tick that reported
\* caught; done is false on every other tick, and done is true if and only
\* if info.caught or info.levelComplete is.
C23_RewardAndDone == [][StepReturn]_vars

\* C23 witness: a step reached the goal of level 1 and returned +100, done
C23_Witness ==
  /\ lastOp.op = "step" /\ level = 2 /\ result.levelComplete
  /\ lastOp.c.done /\ lastOp.c.reward = 100 * CENT

(***************************************************************************)
(* Level starts.  The game is at the start of one of the levels 1 ..       *)
(* MAX_LEVEL + LevelsPast (update adds 1 to level on every win, with no    *)
(* upper limit) and is restarted there or at level 1; getLevelConfig is    *)
(* also called on its own with the levels LevelsPast to either side of     *)
(* the table.                                                              *)
(***************************************************************************)
LevelsPast == 2

LevelsPlayed == 1 .. (MAX_LEVEL + LevelsPast)
LevelsAsked == (1 - LevelsPast) .. (MAX_LEVEL + LevelsPast)

LevelInit ==
  \E lv \in LevelsPlayed :
    \E jits \in [1 .. getLevelConfig(lv).cats -> Jitters] :
      /\ InitAt(startLevel([constructed EXCEPT !.level = lv], FALSE, jits))
      /\ lastOp = Op("startLevel", 0, 0, 0, NoInfo)

LevelRestart == \E b \in BOOLEAN : StartLevel(b, Jitters)

GetLevelConfig ==
  \E lv \in LevelsAsked :
    /\ lastOp' = Op("getLevelConfig", lv, 0, getLevelConfig(lv), NoInfo)
    /\ UNCHANGED <<GameFields, result>>

LevelNext == LevelRestart \/ GetLevelConfig

LevelSpec == LevelInit /\ [][LevelNext]_vars

\* the row of the table that the claim names for level lv
entryOf(lv) ==
  IF lv < 1 THEN LEVEL_CONFIG[1]
  ELSE IF lv > MAX_LEVEL THEN LEVEL_CONFIG[MAX_LEVEL]
  ELSE LEVEL_CONFIG[lv]

\* C24: when a level starts at level L, the number of hunters is the cats
\* entry of the table's row for L clamped to 1 .. MAX_LEVEL and every
\* hunter's base speed is the seeker's speed in cells per second times that
\* row's speedFactor; getLevelConfig gives row 1 for levels below 1 and the
\* last row for levels above MAX_LEVEL.
C24_HuntersOfLevel ==
  /\ lastOp.op = "startLevel" =>
        /\ Len(cats) = entryOf(level).cats
        /\ \A i \in 1 .. Len(cats) :
             cats[i].speedCells = PLAYER_SPEED_CELLS * entryOf(level).speedFactor
  /\ lastOp.op = "getLevelConfig" => lastOp.c = entryOf(lastOp.a)

\* C24 witness: a level past the end of the table was restarted and has the
\* four hunters of the last row
C24_Witness ==
  /\ lastOp.op = "startLevel" /\ lastOp.a = 0 /\ level = MAX_LEVEL + LevelsPast
  /\ Len(cats) = 4 /\ cats[4].goalJitter # NoJitter

(***************************************************************************)
(* QLearningAgent (ml/qlearning).  An agent value holds the fields of the  *)
(* object.  Rates and probabilities (lr, gamma, epsilon, epsilonDecay,     *)
(* epsilonMin, the draws of Math.random) are held in 1/ONE and a product   *)
(* of two of them is rounded to that resolution.  A Q-value is a whole     *)
(* number of the smallest step the model tells apart.  The Map qTable is a *)
(* sequence of entries in insertion order, each key in at most one entry;  *)
(* a state key is the tuple of the four numbers that stateToKey joins with *)
(* commas.  -Infinity is the number -Infinity.                             *)
(***************************************************************************)
ONE == 1000
WINDOW == 100
numActions == 5

\* a ?? b
orElse(a, b) == IF a = Undefined THEN b ELSE a

fmul(a, b) == RoundDiv(a * b, ONE)

newStats ==
  [episodes |-> 0, totalReward |-> 0, avgReward |-> 0, bestReward |-> -Infinity,
   recentRewards |-> << >>]

\* new QLearningAgent(options)
newAgent(options) ==
  [lr |-> orElse(options.learningRate, 200),
   gamma |-> orElse(options.discount, 900),
   epsilon |-> orElse(options.epsilon, ONE),
   epsilonDecay |-> orElse(options.epsilonDecay, 998),
   epsilonMin |-> orElse(options.epsilonMin, 50),
   bins |-> orElse(options.bins, 10),
   qTable |-> << >>,
   stats |-> newStats]

noOptions ==
  [learningRate |-> Undefined, discount |-> Undefined, epsilon |-> Undefined,
   epsilonDecay |-> Undefined, epsilonMin |-> Undefined, bins |-> Undefined]

\* Math.atan2(dy, dx) in units of pi / 4, for components -1, 0, 1
atan2Eighths(dy, dx) ==
  IF dy = 0 THEN (IF dx < 0 THEN 4 ELSE 0)
  ELSE IF dx = 0 THEN 2 * dy
  ELSE IF dx > 0 THEN dy ELSE 3 * dy

dirToOctant(dx, dy) == (atan2Eighths(dy, dx) + 4) % 8

\* dist in 1/ONE
distToDanger(dist) == IF dist < 80 THEN 0 ELSE IF dist < 200 THEN 1 ELSE 2

stateToKey(state) ==
  LET holeDir == dirToOctant(state.dirToHoleX, state.dirToHoleY)
      catDanger == distToDanger(state.distToCat)
      catDir == IF catDanger < 2 THEN dirToOctant(state.dirToCatX, state.dirToCatY) ELSE 0
      crumbMask == state.crumbUp * 8 + state.crumbDown * 4 + state.crumbLeft * 2
                   + state.crumbRight
  IN <<holeDir, catDanger, catDir, crumbMask>>

\* Map.has, Map.get
tableHas(qTable, key) == \E i \in 1 .. Len(qTable) : qTable[i].key = key
tableGet(qTable, key) == qTable[CHOOSE i \in 1 .. Len(qTable) : qTable[i].key = key].q
tableKeys(qTable) == { qTable[i].key : i \in 1 .. Len(qTable) }

\* getQ(key); init = the numActions draws of Math.random() * 0.01
getQ(agent, key, init) ==
  IF ~tableHas(agent.qTable, key)
  THEN [agent EXCEPT !.qTable = Append(agent.qTable, [key |-> key, q |-> init])]
  ELSE agent

\* variant: the scan takes a later action on an equal value
RECURSIVE bestFromLast(_, _, _, _)
bestFromLast(q, a, bestAction, bestValue) ==
  IF a >= numActions THEN bestAction
  ELSE IF q[a + 1] >= bestValue THEN bestFromLast(q, a + 1, a, q[a + 1])
  ELSE bestFromLast(q, a + 1, bestAction, bestValue)

\* the loop of getBestAction from action a on; q[a + 1] is the program's q[a]
RECURSIVE bestFrom(_, _, _, _)
bestFrom(q, a, bestAction, bestValue) ==
  IF a >= numActions THEN bestAction
  ELSE IF q[a + 1] > bestValue THEN bestFrom(q, a + 1, a, q[a + 1])
  ELSE bestFrom(q, a + 1, bestAction, bestValue)

\* getBestAction(state): the agent after getQ and the action
getBestAction(agent, state, init) ==
  LET key == stateToKey(state)
      ag == getQ(agent, key, init)
      q == tableGet(ag.qTable, key)
  IN [agent |-> ag, action |-> bestFrom(q, 1, 0, q[1])]

\* getAction(state); u1 = the first draw of Math.random in 1/ONE, u2 = the
\* second one
getAction(agent, state, u1, u2, init) ==
  IF u1 < agent.epsilon
  THEN [agent |-> agent, action |-> (u2 * numActions) \div ONE]
  ELSE getBestAction(agent, state, init)

\* variant: the product is not held at the floor
decayEpsilonNoFloor(agent) ==
  IF agent.epsilon > agent.epsilonMin
  THEN [agent EXCEPT !.epsilon = fmul(agent.epsilon, agent.epsilonDecay)]
  ELSE agent

decayEpsilon(agent) ==
  IF agent.epsilon > agent.epsilonMin
  THEN LET e == fmul(agent.epsilon, agent.epsilonDecay)
       IN [agent EXCEPT !.epsilon = IF e < agent.epsilonMin THEN agent.epsilonMin ELSE e]
  ELSE agent

\* variant: the newest reward is dropped from a full window
pushRecentDropNewest(recent, r) ==
  IF Len(recent) + 1 > WINDOW THEN recent ELSE Append(recent, r)

\* recentRewards.push(r), then shift() when longer than the window
pushRecent(recent, r) ==
  IF Len(recent) + 1 > WINDOW THEN Tail(Append(recent, r)) ELSE Append(recent, r)

\* recordEpisode(totalReward); avgReward is the quotient rounded
recordEpisode(agent, totalReward) ==
  LET st == agent.stats
      st1 == [episodes |-> st.episodes + 1,
              totalReward |-> st.totalReward + totalReward,
              avgReward |-> RoundDiv(st.totalReward + totalReward, st.episodes + 1),
              bestReward |-> IF totalReward > st.bestReward THEN totalReward
                             ELSE st.bestReward,
              recentRewards |-> pushRecent(st.recentRewards, totalReward)]
  IN decayEpsilon([agent EXCEPT !.stats = st1])

(***************************************************************************)
(* Serialized agent data.  A number of the data (a double) that stands for *)
(* a Q-value is held in 1/F32_STEP of the Q-value step, so that not every  *)
(* number of the data is a Float32: Array.from widens exactly, new         *)
(* Float32Array rounds to the nearest Float32.  The value of a key in      *)
(* data.qTable is an array of numbers (isArray) or a number (length),      *)
(* which new Float32Array takes as a length.  Object.entries gives the     *)
(* keys in the order they were written.  hasStats and hasQTable tell       *)
(* whether the data has the field with a value that is not falsy.          *)
(***************************************************************************)
F32_STEP == 4

arrayFrom(q) == [i \in 1 .. Len(q) |-> q[i] * F32_STEP]

toFloat32(v) == RoundDiv(v, F32_STEP)

\* new Float32Array(values): throws a RangeError on a negative length
newFloat32Array(values) ==
  IF values.isArray
  THEN [threw |-> FALSE, q |-> [i \in 1 .. Len(values.array) |-> toFloat32(values.array[i])]]
  ELSE IF values.length < 0 THEN [threw |-> TRUE, q |-> << >>]
  ELSE [threw |-> FALSE, q |-> [i \in 1 .. values.length |-> 0]]

\* exportQTable()
exportQTable(agent) ==
  [isNull |-> FALSE, hasStats |-> TRUE, hasQTable |-> TRUE,
   lr |-> agent.lr, gamma |-> agent.gamma, epsilon |-> agent.epsilon,
   epsilonDecay |-> agent.epsilonDecay, epsilonMin |-> agent.epsilonMin,
   bins |-> agent.bins, stats |-> agent.stats,
   qTable |-> [i \in 1 .. Len(agent.qTable) |->
                 [key |-> agent.qTable[i].key,
                  values |-> [isArray |-> TRUE, array |-> arrayFrom(agent.qTable[i].q),
                             length |-> 0]]]]

\* Map.set
tableSet(qTable, key, q) ==
  IF tableHas(qTable, key)
  THEN [i \in 1 .. Len(qTable) |-> IF qTable[i].key = key THEN [key |-> key, q |-> q]
                                   ELSE qTable[i]]
  ELSE Append(qTable, [key |-> key, q |-> q])

\* the loop of importQTable over Object.entries(data.qTable), from entry i
RECURSIVE importEntries(_, _, _)
importEntries(qTable, entries, i) ==
  IF i > Len(entries) THEN [qTable |-> qTable, threw |-> FALSE]
  ELSE LET arr == newFloat32Array(entries[i].values)
       IN IF arr.threw THEN [qTable |-> qTable, threw |-> TRUE]
          ELSE importEntries(tableSet(qTable, entries[i].key, arr.q), entries, i + 1)

\* variant: the entries held before the import stay in the table
importQTableKeep(agent, data) ==
  IF data.isNull THEN [agent |-> agent, threw |-> TRUE]
  ELSE LET a1 == [agent EXCEPT !.lr = orElse(data.lr, agent.lr),
                               !.gamma = orElse(data.gamma, agent.gamma),
                               !.epsilon = orElse(data.epsilon, agent.epsilon),
                               !.epsilonDecay = orElse(data.epsilonDecay, agent.epsilonDecay),
                               !.epsilonMin = orElse(data.epsilonMin, agent.epsilonMin),
                               !.bins = orElse(data.bins, agent.bins),
                               !.stats = IF data.hasStats THEN data.stats
                                         ELSE agent.stats]
           res == IF data.hasQTable THEN importEntries(a1.qTable, data.qTable, 1)
                  ELSE [qTable |-> a1.qTable, threw |-> FALSE]
       IN [agent |-> [a1 EXCEPT !.qTable = res.qTable], threw |-> res.threw]

\* importQTable(data): the agent it leaves, and whether it threw.  Reading a
\* field of null throws before anything is written.
importQTable(agent, data) ==
  IF data.isNull THEN [agent |-> agent, threw |-> TRUE]
  ELSE LET a1 == [agent EXCEPT !.lr = orElse(data.lr, agent.lr),
                               !.gamma = orElse(data.gamma, agent.gamma),
                               !.epsilon = orElse(data.epsilon, agent.epsilon),
                               !.epsilonDecay = orElse(data.epsilonDecay, agent.epsilonDecay),
                               !.epsilonMin = orElse(data.epsilonMin, agent.epsilonMin),
                               !.bins = orElse(data.bins, agent.bins),
                               !.stats = IF data.hasStats THEN data.stats
                                         ELSE agent.stats,
                               !.qTable = << >>]
           res == IF data.hasQTable THEN importEntries(<< >>, data.qTable, 1)
                  ELSE [qTable |-> << >>, threw |-> FALSE]
       IN [agent |-> [a1 EXCEPT !.qTable = res.qTable], threw |-> res.threw]

\* TrainingManager.load(key); json = what localStorage holds under the key:
\* nothing, a text that JSON.parse rejects, or the text of a value
load(agent, json) ==
  IF json.kind = "none" THEN [agent |-> agent, ok |-> FALSE]
  ELSE IF json.kind = "garbage" THEN [agent |-> agent, ok |-> FALSE]
  ELSE LET res == importQTable(agent, json.data)
       IN [agent |-> res.agent, ok |-> ~res.threw]

(***************************************************************************)
(* An agent in use: actions are chosen, an episode is recorded, the agent  *)
(* is exported and the export is imported into another agent (lastOp.info  *)
(* is then that agent), and stored data good and bad is loaded.  lastOp    *)
(* holds the call: a and b its arguments and what it started from, c what  *)
(* it returned, info the agent after it.                                   *)
(***************************************************************************)
AgentEpisodes == 1

agentOf == lastOp.info

AgentOptions == { [noOptions EXCEPT !.epsilon = e] : e \in {Undefined, 0} }

observation(hx, hy, dist) ==
  [dirToHoleX |-> hx, dirToHoleY |-> hy, distToCat |-> dist, dirToCatX |-> 1,
   dirToCatY |-> -1, crumbUp |-> 0, crumbDown |-> 1, crumbLeft |-> 0, crumbRight |-> 1]

Observations == { observation(-1, 0, 500), observation(-1, 1, 100) }

\* draws of Math.random, in 1/ONE
Randoms == {0, 999}

\* the values a new entry of the table is given
QInits == { <<2, 7, 7, 1, 0>>, <<0, 0, 0, 0, 0>> }

AgentRewards == {-3}

\* the agents an export is imported into: a new one, and one that has an
\* entry already
Importers ==
  { newAgent(noOptions),
    getQ(newAgent(noOptions), stateToKey(observation(1, 0, 50)), <<1, 1, 1, 1, 1>>) }

someStats ==
  [episodes |-> 2, totalReward |-> 10, avgReward |-> 5, bestReward |-> 7,
   recentRewards |-> <<3, 7>>]

arrayOf(items) == [isArray |-> TRUE, array |-> items, length |-> 0]
lengthOf(n) == [isArray |-> FALSE, array |-> << >>, length |-> n]

storedData(lr, eps, hasStats, entries) ==
  [isNull |-> FALSE, hasStats |-> hasStats, hasQTable |-> entries # << >>,
   lr |-> lr, gamma |-> Undefined, epsilon |-> eps, epsilonDecay |-> Undefined,
   epsilonMin |-> Undefined, bins |-> Undefined, stats |-> someStats,
   qTable |-> entries]

nullData == [storedData(Undefined, Undefined, FALSE, << >>) EXCEPT !.isNull = TRUE]

\* what localStorage may hold: nothing; a text that is not JSON; "null";
\* data with one field; data with an entry of numbers that are not
\* Float32s; data whose second entry is a negative number
Stored ==
  { [kind |-> "none", data |-> nullData],
    [kind |-> "garbage", data |-> nullData],
    [kind |-> "value", data |-> nullData],
    [kind |-> "value", data |-> storedData(500, Undefined, FALSE, << >>)],
    [kind |-> "value",
     data |-> storedData(Undefined, 0, TRUE,
                         << [key |-> <<0, 2, 0, 5>>, values |-> arrayOf(<<9, 2, 0, 0, 13>>)] >>)],
    [kind |-> "value",
     data |-> storedData(100, 0, TRUE,
                         << [key |-> <<0, 2, 0, 5>>, values |-> arrayOf(<<4, 0, 0, 0, 0>>)],
                            [key |-> <<4, 0, 3, 5>>, values |-> lengthOf(-1)] >>)] }

AgentCall(name, a, b, c, agent) ==
  /\ lastOp' = Op(name, a, b, c, agent)
  /\ UNCHANGED <<GameFields, result>>

AgentInit ==
  /\ InitAt(constructed)
  /\ \E options \in AgentOptions : lastOp = Op("new", options, 0, 0, newAgent(options))

AGetAction ==
  \E state \in Observations, u1 \in Randoms, u2 \in Randoms, init \in QInits :
    \E res \in {getAction(agentOf, state, u1, u2, init)} :
      AgentCall("getAction", state, agentOf, res.action, res.agent)

ARecordEpisode ==
  /\ agentOf.stats.episodes < AgentEpisodes
  /\ \E r \in AgentRewards :
       AgentCall("recordEpisode", r, agentOf, 0, recordEpisode(agentOf, r))

AExport ==
  /\ lastOp.op # "exportQTable"
  /\ AgentCall("exportQTable", 0, agentOf, exportQTable(agentOf), agentOf)

AImport ==
  /\ lastOp.op = "exportQTable"
  /\ \E target \in Importers :
       \E res \in {importQTable(target, lastOp.c)} :
         AgentCall("importQTable", lastOp.c, [exporter |-> agentOf, importer |-> target],
                   res.threw, res.agent)

ALoad ==
  \E json \in Stored :
    \E res \in {load(agentOf, json)} :
      AgentCall("load", json, agentOf, res.ok, res.agent)

AgentNext == AGetAction \/ ARecordEpisode \/ AExport \/ AImport \/ ALoad

AgentSpec == AgentInit /\ [][AgentNext]_vars

(***************************************************************************)
(* Properties of the agent                                                 *)
(***************************************************************************)
\* the Q-vector that getQ gives for the observation of the last call
qOfCall == tableGet(agentOf.qTable, stateToKey(lastOp.a))

\* C25: with epsilon = 0, getAction returns an index whose Q-value is the
\* maximum of getQ(stateToKey(observation)), and the lowest index among
\* equal maxima.
C25_GreedyLowestIndex ==
  (lastOp.op = "getAction" /\ lastOp.b.epsilon = 0) =>
    /\ lastOp.c \in 0 .. (numActions - 1)
    /\ tableHas(agentOf.qTable, stateToKey(lastOp.a))
    /\ \A a \in 0 .. (numActions - 1) : qOfCall[a + 1] <= qOfCall[lastOp.c + 1]
    /\ \A a \in 0 .. (lastOp.c - 1) : qOfCall[a + 1] < qOfCall[lastOp.c + 1]

\* C25 witness: an agent with epsilon = 0 chose among values whose maximum
\* is held by actions 1 and 2, on a draw of Math.random of 0
C25_Witness ==
  /\ lastOp.op = "getAction" /\ lastOp.b.epsilon = 0 /\ lastOp.c = 1
  /\ qOfCall[2] = qOfCall[3] /\ qOfCall[1] < qOfCall[2]

(***************************************************************************)
(* Episodes: recordEpisode called MaxEpisodes times on a new agent.  The   *)
(* reward of an episode is PlainReward but for at most MaxOddRewards       *)
(* episodes of a run, whose reward is one of OddRewards.  lastOp.b is the  *)
(* list of all rewards recorded so far and lastOp.c the number of calls.   *)
(***************************************************************************)
MaxEpisodes == WINDOW + 3
MaxOddRewards == 1
PlainReward == 1

OddRewards == {-2, 5}

\* epsilon, epsilonDecay, epsilonMin of the options: the defaults; a decay
\* that reaches the default floor and one that passes a higher floor; an
\* agent that does not explore; a decay of 1
EpisodeOptions ==
  { [noOptions EXCEPT !.epsilon = t[1], !.epsilonDecay = t[2], !.epsilonMin = t[3]] :
      t \in { <<Undefined, Undefined, Undefined>>, <<Undefined, 500, Undefined>>,
              <<Undefined, 500, 300>>, <<0, Undefined, Undefined>>,
              <<500, ONE, Undefined>> } }

EpisodeInit ==
  /\ InitAt(constructed)
  /\ \E options \in EpisodeOptions : lastOp = Op("new", 0, << >>, 0, newAgent(options))

oddCount(history) == Cardinality({ i \in 1 .. Len(history) : history[i] # PlainReward })

ERecordEpisode ==
  /\ lastOp.c < MaxEpisodes
  /\ \E r \in {PlainReward} \cup OddRewards :
       /\ r # PlainReward => oddCount(lastOp.b) < MaxOddRewards
       /\ AgentCall("recordEpisode", r, Append(lastOp.b, r), lastOp.c + 1,
                    recordEpisode(agentOf, r))

EpisodeSpec == EpisodeInit /\ [][ERecordEpisode]_vars

EpisodeRecorded == lastOp'.op = "recordEpisode"
epsilonOf == agentOf.epsilon
epsilonNext == lastOp'.info.epsilon
floorOf == agentOf.epsilonMin

DecaysToFloor ==
  EpisodeRecorded =>
    /\ epsilonNext <= epsilonOf
    /\ epsilonOf > floorOf =>
         epsilonNext = Max2(fmul(epsilonOf, agentOf.epsilonDecay), floorOf)
    /\ epsilonNext >= floorOf

\* C26 as stated: across any sequence of recordEpisode calls epsilon never
\* increases, each call multiplies it by epsilonDecay until the floor is
\* reached, and epsilon is not below epsilonMin after a call.
C26_NeverBelowFloor == [][DecaysToFloor]_vars

DecaysFromAbove ==
  EpisodeRecorded =>
    /\ epsilonNext <= epsilonOf
    /\ epsilonOf > floorOf =>
         /\ epsilonNext = Max2(fmul(epsilonOf, agentOf.epsilonDecay), floorOf)
         /\ epsilonNext >= floorOf
    /\ epsilonOf <= floorOf => epsilonNext = epsilonOf

\* C26 amended: epsilon never increases; a call made while epsilon is above
\* epsilonMin sets it to the product with epsilonDecay or, if that is
\* below epsilonMin, to epsilonMin; a call made while epsilon is at or
\* below epsilonMin leaves it as it is.
C26_DecaysWhileAboveFloor == [][DecaysFromAbove]_vars

\* C26 witness: the product fell below a floor of 0.3 and epsilon was set
\* to the floor
C26_Witness ==
  /\ lastOp.op = "recordEpisode" /\ lastOp.c = 3
  /\ floorOf = 300 /\ epsilonOf = 300 /\ agentOf.epsilonDecay = 500

\* m is the largest of the rewards of history
largestOf(history, m) ==
  /\ \E i \in 1 .. Len(history) : history[i] = m
  /\ \A i \in 1 .. Len(history) : history[i] <= m

\* C27: after any sequence of recordEpisode calls the window of recent
\* rewards holds at most 100 values, which are the most recent min(n, 100)
\* rewards in the order they came; the episode count is the number of
\* calls and bestReward is the largest reward recorded.
C27_RecentWindow ==
  LET n == lastOp.c
      history == lastOp.b
      st == agentOf.stats
  IN /\ Len(st.recentRewards) <= WINDOW
     /\ st.recentRewards = SubSeq(history, Max2(1, n - WINDOW + 1), n)
     /\ st.episodes = n
     /\ n > 0 => largestOf(history, st.bestReward)

\* C27 witness: the window is full, the third reward, the best one, has
\* left it, and bestReward still holds it
C27_Witness ==
  /\ lastOp.c = MaxEpisodes /\ lastOp.b[3] = 5
  /\ Len(agentOf.stats.recentRewards) = WINDOW
  /\ \A i \in 1 .. WINDOW : agentOf.stats.recentRewards[i] = PlainReward
  /\ agentOf.stats.bestReward = 5

hyperOf(agent) ==
  <<agent.lr, agent.gamma, agent.epsilon, agent.epsilonDecay, agent.epsilonMin, agent.bins>>

\* C28: the agent that has imported the result of exportQTable has the
\* hyperparameters, the statistics, the set of table keys and, key by key,
\* the Q-vectors of the exporting agent; the entries it held before are
\* gone.
C28_ExportImportRoundTrip ==
  lastOp.op = "importQTable" =>
    LET exporter == lastOp.b.exporter
    IN /\ ~lastOp.c
       /\ hyperOf(agentOf) = hyperOf(exporter)
       /\ agentOf.stats = exporter.stats
       /\ tableKeys(agentOf.qTable) = tableKeys(exporter.qTable)
       /\ \A key \in tableKeys(exporter.qTable) :
            tableGet(agentOf.qTable, key) = tableGet(exporter.qTable, key)
       /\ Len(agentOf.qTable) = Len(exporter.qTable)

\* C28 witness: an agent with two entries, a recorded episode and
\* epsilon = 0 was imported into an agent that held an entry under another
\* key
C28_Witness ==
  /\ lastOp.op = "importQTable"
  /\ Len(lastOp.b.exporter.qTable) = 2
  /\ lastOp.b.exporter.stats.episodes = 1 /\ lastOp.b.exporter.epsilon = 0
  /\ Len(lastOp.b.importer.qTable) = 1
  /\ tableKeys(lastOp.b.importer.qTable) \cap tableKeys(lastOp.b.exporter.qTable) = {}

\* C29: when the import of stored data fails, load returns false and the
\* agent's hyperparameters, statistics and Q-table are what they were
\* before the call.
C29_FailedLoadLeavesAgent ==
  (lastOp.op = "load" /\ ~lastOp.c) => agentOf = lastOp.b

(***************************************************************************)
(* The goal cells                                                          *)
(***************************************************************************)
\* C30: in every reachable state of the game every goal cell (a cell of
\* column 0 whose index is in holeOpenSet) has strength 0.
C30_GoalCellsOpen ==
  \A r \in 0 .. (ROWS - 1) : isHoleCellIn(holeOpenSet, 0, r) => crumbs[idx(0, r)] = 0

\* C30 witness: the seeker stands next to a goal cell, beyond the barrier,
\* and has left a crumb in the cell behind it
C30_Witness ==
  LET cell == cellAt(player.x, player.y)
  IN /\ lastOp.op = "step" /\ running
     /\ cell.c = 1 /\ isHoleCellIn(holeOpenSet, 0, cell.r)
     /\ crumbs[idx(2, cell.r)] = CRUMB_STRENGTH

(***************************************************************************)
(* step on a game that a catch has stopped                                 *)
(***************************************************************************)
StepOnStopped == StepTaken /\ ~running

StoppedFrame ==
  /\ ~lastOp'.c.done
  /\ player'.x = player.x /\ player'.y = player.y
  /\ cats' = cats
  /\ <<crumbs', ringSet', holeOpenSet'>> = <<crumbs, ringSet, holeOpenSet>>
  /\ level' = level /\ ~running'

\* C40 as stated: step, for any action index, on a game that a catch has
\* stopped returns done = false and leaves the seeker's position, wish and
\* committed direction, the hunters, the field and the level unchanged.
C40_StoppedStepChangesNothing ==
  [][StepOnStopped =>
       /\ StoppedFrame
       /\ <<player'.wishX, player'.wishY>> = <<player.wishX, player.wishY>>
       /\ dirOf(player') = dirOf(player)]_vars

\* C40 amended: such a step returns done = false and leaves the seeker's
\* position, the hunters, the field and the level unchanged; the indexes
\* 0 .. 3 still set the wish, 4 still zeroes wish and committed direction,
\* and no index changes anything else of the seeker.
C40_StoppedStepOnlyTakesInput ==
  [][StepOnStopped =>
       /\ StoppedFrame
       /\ lastOp'.a \notin 0 .. 4 => player' = player
       /\ lastOp'.a \in 0 .. 3 =>
            player' = [player EXCEPT !.wishX = wishOf(lastOp'.a)[1],
                                     !.wishY = wishOf(lastOp'.a)[2]]
       /\ lastOp'.a = 4 =>
            player' = [player EXCEPT !.wishX = 0, !.wishY = 0, !.dirX = 0, !.dirY = 0]]_vars

\* C40 witness: a caught seeker that was moving has been stepped with the
\* index 4 and has lost its committed direction where it stood
C40_Witness ==
  /\ lastOp.op = "step" /\ lastOp.a = 4 /\ ~running /\ ~result.caught
  /\ dirOf(player) = <<0, 0>>
  /\ cellAt(player.x, player.y) # spawnCell

(***************************************************************************)
(* The seeker steered freely on level 1, with ticks of the longest dt the  *)
(* host loop passes (0.05 s), among the barrier and its own trail.         *)
(***************************************************************************)
WalkTime == 30
WalkDt == 3

WalkInit ==
  /\ InitAt(reset(constructed, 1, <<NoJitter>>))
  /\ lastOp = Op("reset", 1, 0, 0, NoInfo)

WalkStep == \E a \in 0 .. (Len(stepActions) - 1) :
              Step(a, WalkDt, {NoJitter}, Noises, DecayDraws, WalkTime)

\* setInput with both keys of a diagonal held
WalkDiagonal == lastOp.op # "setWish" /\ SetWish(1, 1)

WalkTick == Update(WalkDt, {NoJitter}, Noises, DecayDraws, WalkTime)

WalkNext == WalkStep \/ WalkDiagonal \/ WalkTick

WalkSpec == WalkInit /\ [][WalkNext]_vars

\* C31: in every state reached through reset, input and ticks of at most
\* 0.05 s the seeker's cell is inside the grid and holds no crumb.
C31_SeekerCellFree ==
  /\ inBounds(seekerCell.c, seekerCell.r)
  /\ ~isCrumbIn(crumbs, seekerCell.c, seekerCell.r)

\* C31 witness: the seeker has gone one cell to the right, has turned
\* there and is on its way up or down, off the centre of its cell, the
\* crumb it left in its spawn cell beside the way it came
C31_Witness ==
  /\ running /\ player.dirY # 0 /\ player.dirX = 0
  /\ seekerCell.c = spawnCell.c + 1 /\ seekerCell.r # spawnCell.r
  /\ player.x = centerOf(seekerCell.c) /\ player.y # centerOf(seekerCell.r)
  /\ isCrumbIn(crumbs, spawnCell.c, spawnCell.r)
  /\ isCrumbIn(crumbs, spawnCell.c + 1, spawnCell.r)
(***************************************************************************)
(* Hunters and the grid.                                                   *)
(***************************************************************************)
\* the cell of a hunter is a cell of the grid
catInGrid(cat) == ~getCell(cat).nan /\ inBounds(getCell(cat).c, getCell(cat).r)

\* C32: in every reachable state the cell of each hunter's position is an
\* in-bounds cell of the grid.
C32_HuntersInGrid == \A i \in 1 .. Len(cats) : catInGrid(cats[i])
(***************************************************************************)
(* The barrier round the goal                                              *)
(***************************************************************************)
GridCells == (0 .. (COLS - 1)) \X (0 .. (ROWS - 1))

nextTo(p, q) ==
  \/ p[1] = q[1] /\ Abs(p[2] - q[2]) = 1
  \/ p[2] = q[2] /\ Abs(p[1] - q[1]) = 1

\* a barrier cell that still blocks
blockingBarrier(p) == idx(p[1], p[2]) \in ringSet /\ crumbs[idx(p[1], p[2])] > 0

\* the cells that a 4-connected route of in-bounds cells from a cell of S
\* reaches without passing through a blocking barrier cell
RECURSIVE routesFrom(_)
routesFrom(S) ==
  Bind(S \cup { q \in GridCells : ~blockingBarrier(q) /\ \E p \in S : nextTo(p, q) },
       LAMBDA more : IF more = S THEN S ELSE routesFrom(more))

GoalCells == { q \in GridCells : isHoleCellIn(holeOpenSet, q[1], q[2]) }

Enclosed == routesFrom({ <<spawnCell.c, spawnCell.r>> }) \cap GoalCells = {}

\* reset or startLevel was the last call, or the tick was won and has
\* called startLevel
Restarted == lastOp.op \in {"reset", "startLevel"} \/ result.levelComplete

WonTick == lastOp'.op \in {"update", "step"} /\ result'.levelComplete

DecayTime == 36
DecayDts == {3, 12}

DecayInit ==
  /\ InitAt(reset(constructed, 1, <<NoJitter>>))
  /\ lastOp = Op("reset", 1, 0, 0, NoInfo)

DecayStep == \E a \in {0, 4}, dt \in DecayDts :
               Step(a, dt, {NoJitter}, Noises, DecayDraws, DecayTime)
DecayOne == \E pick \in DecayDraws : GDecayOneCrumb(pick)

DecayAdd == \E pick \in DecayDraws : GAddCrumb(pick.c, pick.r, MaxStrength)

DecayNext == DecayStep \/ DecayOne \/ DecayAdd

DecaySpec == DecayInit /\ [][DecayNext]_vars

\* a tick that neither ends in a catch nor restarts the level
PlainTick == lastOp'.op = "step" /\ ~result'.caught /\ ~result'.levelComplete

\* the accumulator is in [0, 1) and the tick has made floor(accumulator
\* before + dt x rate) calls of decayOneCrumb
DecayCount ==
  /\ decayAccum' \in 0 .. (HZ - 1)
  /\ lastOp'.info.decays = (decayAccum + lastOp'.b * CRUMB_DECAY_PER_SEC) \div HZ

\* a call of decayOneCrumb lowers at most one strength, by at most 1, and
\* raises none
DecayCall ==
  lastOp'.op = "decayOneCrumb" =>
    /\ \A k \in Cells : crumbs'[k] <= crumbs[k] /\ crumbs[k] - crumbs'[k] <= 1
    /\ Cardinality({ k \in Cells : crumbs'[k] # crumbs[k] }) <= 1

waitOver ==
  \/ (player.wishTimer + lastOp'.a) * FORCE_TURN_NUM > HZ
  \/ lastOp'.info.sinceWish * FORCE_TURN_NUM > HZ

TurnForced ==
  (ProcessTurnsStep /\ moving /\ wishAcross /\ waitOver)
    => dirOf(player') = wishDir /\ player'.wishTimer = 0

CommitResets ==
  (ProcessTurnsStep /\ moving /\ dirOf(player') # dirOf(player)) => player'.wishTimer = 0

\* C35: a moving seeker whose wish is a turn across its direction commits
\* the turn no later than the first call of processTurns that finds the
\* wait above 0.25 s, wherever the seeker is, and every commit of a turn
\* sets the wait timer to 0.
C35_TurnForcedAfterWait == [][TurnForced /\ CommitResets]_vars

\* C35 witness: processTurns found the seeker moving, out of tolerance of
\* the centres, with a wish across and the wait above 0.25 s, and turned it
C35_Witness ==
  /\ lastOp.op = "processTurns"
  /\ lastOp.info.from.dirX # 0
  /\ lastOp.info.from.wishX = 0 /\ lastOp.info.from.wishY # 0
  /\ ~nearCenter(lastOp.info.from.x, lastOp.info.from.dirX)
  /\ (lastOp.info.from.wishTimer + lastOp.a) * FORCE_TURN_NUM > HZ
  /\ player.dirX = 0 /\ player.dirY = lastOp.info.from.wishY
  /\ player.wishTimer = 0
(***************************************************************************)
(* Hunters and the crumbs under them.  A game reset to level 1; the seeker *)
(* is steered left or stopped, and between the ticks addCrumb is called on *)
(* the cell of a hunter, with each strength.                               *)
(***************************************************************************)
CrushTime == 12

CrushInit ==
  /\ InitAt(reset(constructed, 1, <<NoJitter>>))
  /\ lastOp = Op("reset", 1, 0, 0, NoInfo)

CrushStep == \E a \in {0, 4}, dt \in Dts :
               Step(a, dt, {NoJitter}, Noises, DecayDraws, CrushTime)

CrushAdd ==
  \E i \in 1 .. Len(cats), st \in 1 .. MaxStrength :
    /\ ~cats[i].nan
    /\ lastOp.op # "addCrumb"
    /\ GAddCrumb(getCell(cats[i]).c, getCell(cats[i]).r, st)

CrushNext == CrushStep \/ CrushAdd

CrushSpec == CrushInit /\ [][CrushNext]_vars

\* the log of the hunters' updates on the last tick
leftsOf == lastOp.info.lefts

\* C36: a hunter whose update ends in a cell other than the cell remembered
\* from its previous update leaves that cell with strength 0 and out of
\* ringSet when the update is done, whatever the strength was; an update
\* that ends in the remembered cell leaves every strength and ringSet as
\* they were.
C36_LeftCellDestroyed ==
  \A j \in 1 .. Len(leftsOf) :
    /\ (leftsOf[j].changed /\ leftsOf[j].inGrid) => (leftsOf[j].now = 0 /\ ~leftsOf[j].inRing)
    /\ ~leftsOf[j].changed => leftsOf[j].same

\* C36 witness: the hunter has left a cell of strength MaxStrength
C36_Witness ==
  /\ Len(leftsOf) = 1
  /\ leftsOf[1].changed /\ leftsOf[1].inGrid
  /\ leftsOf[1].was = MaxStrength /\ leftsOf[1].now = 0
(***************************************************************************)
(* The win with a hunter at hand.  A game reset to level 1; weakenCrumb    *)
(* opens the barrier in the seeker's row and in the hunter's; the seeker   *)
(* goes left or stops; the hunter's goal is drawn up and left of the       *)
(* seeker's cell, so that the hunter comes round through its own row into  *)
(* the goal column.  The ticks are of 0.05 s, and also of 1/60 s once the  *)
(* hunter is in the goal column; the seeker runs left to the cell next to  *)
(* the goal and may stop from there on.  The decay draws the top right     *)
(* corner, which holds no crumb.  The run ends with the win.               *)
(***************************************************************************)
GoalTime == 72
GoalDts == {1, 3}
GoalActions == {0, 4}
GoalJitters == { [dc |-> -1, dr |-> -1] }
GoalGaps == { <<2, 4>>, <<1, 4>>, <<2, 2>>, <<1, 2>> }
GoalDraws == { [u1 |-> 0, u2 |-> 0, c |-> COLS - 1, r |-> 0] }

GoalInit ==
  /\ InitAt(reset(constructed, 1, <<NoJitter>>))
  /\ lastOp = Op("reset", 1, 0, 0, NoInfo)

GoalOpen == \E p \in GoalGaps :
              /\ crumbs[idx(p[1], p[2])] > 0
              /\ lastOp.op \in {"reset", "weakenCrumb"}
              /\ GWeakenCrumb(p[1], p[2], Infinity)

\* the hunter is in the goal column
hunterRound == Len(cats) = 1 /\ ~cats[1].nan /\ cats[1].x < TILE

GoalStep == \E a \in GoalActions, dt \in GoalDts :
              /\ level = 1
              /\ lastOp.op = "step" \/ \A p \in GoalGaps : crumbs[idx(p[1], p[2])] = 0
              /\ dt = 3 \/ hunterRound
              /\ a = 0 \/ player.x <= centerOf(1)
              /\ Step(a, dt, GoalJitters, Noises, GoalDraws, GoalTime)

GoalNext == GoalOpen \/ GoalStep

GoalSpec == GoalInit /\ [][GoalNext]_vars

\* C38: on a running tick where the seeker's cell after movement is a goal
\* cell the result is levelComplete = true and caught = false and the game
\* keeps running, also when a hunter is within catch distance of the seeker
\* at the win check.
C38_WinBeforeCatch ==
  [][WinTick => /\ result' = [caught |-> FALSE, levelComplete |-> TRUE]
                /\ running'
                /\ lastOp'.c.done /\ ~lastOp'.c.info.caught]_vars

\* C38 witness: a tick was won with a hunter within catch distance of the
\* seeker in the goal cell
C38_Witness ==
  /\ lastOp.op = "step"
  /\ result.levelComplete /\ ~result.caught
  /\ running
  /\ level = 2
  /\ lastOp.info.near
(***************************************************************************)
(* TrainingManager (training.js).  The manager m holds its mode, whether   *)
(* episodeState is set, episodeReward (in 1/CENT), episodeSteps and        *)
(* maxStepsPerEpisode; of its agent it keeps the number of episodes        *)
(* recorded, the agent's choice of an action being any of the five.  The   *)
(* manager is in lastOp.info, the game in the game's variables.            *)
(***************************************************************************)
DEFAULT_MAX_STEPS == 10000
TrainDt == 1

\* the constructor; maxSteps = Undefined: the option is not given
newManager(maxSteps) ==
  [mode |-> "human", hasEpisode |-> FALSE, episodeReward |-> 0, episodeSteps |-> 0,
   maxStepsPerEpisode |-> orElse(maxSteps, DEFAULT_MAX_STEPS), recorded |-> 0]

\* Game.update(dt) as a function of the game value s: the game after the
\* tick and the result; jits = the jitters of the hunters of a level started
\* by a win, jit, noise, picks = the draws of the tick
tickOf(s, dt, jits, jit, noise, picks) ==
  IF notRunning(s) THEN [s |-> s, res |-> NoResult]
  ELSE Bind(seekerPhase(s, dt), LAMBDA mv :
         IF winFirst(mv)
         THEN [s |-> startLevel([mv.s EXCEPT !.level = s.level + 1], FALSE, jits),
               res |-> [caught |-> FALSE, levelComplete |-> TRUE]]
         ELSE Bind(catsLoop(mv.s, 1, dt, jit, noise, << >>, << >>), LAMBDA ct :
                IF ct.caught
                THEN [s |-> ct.s, res |-> [caught |-> TRUE, levelComplete |-> FALSE]]
                ELSE [s |-> decayPhase(ct.s, dt, picks), res |-> NoResult]))

\* Game.step(action, dt) as a function: the game after it and the value
\* returned
stepOf(s, action, dt, jits, jit, noise, picks) ==
  Bind([s EXCEPT !.player = applyAction(s.player, action)], LAMBDA s1 :
  Bind(tickOf(s1, dt, jits, jit, noise, picks), LAMBDA tk :
    [s |-> tk.s, ret |-> stepResult(distanceToHole(s1.player), tk.s.player, tk.s.cats, tk.res)]))

\* TrainingManager.startEpisode
startEpisode(m, s, jits) ==
  [m |-> [m EXCEPT !.hasEpisode = TRUE, !.episodeReward = 0, !.episodeSteps = 0],
   s |-> reset(s, 1, jits)]

\* TrainingManager.setMode(mode)
setMode(m, s, mode, jits) ==
  IF mode = "human"
  THEN [m |-> [m EXCEPT !.mode = mode], s |-> reset(s, 1, jits)]
  ELSE startEpisode([m EXCEPT !.mode = mode], s, jits)

\* TrainingManager.endEpisode
endEpisode(m, s, jits) ==
  Bind(IF m.mode = "train" THEN [m EXCEPT !.recorded = m.recorded + 1] ELSE m, LAMBDA m1 :
    IF m1.mode # "human" THEN startEpisode(m1, s, jits) ELSE [m |-> m1, s |-> s])

\* variant: only the game ends an episode
episodeOverWhenDone(done, steps, maxSteps) == done

\* the test of step: result.done || episodeSteps >= maxStepsPerEpisode
episodeOver(done, steps, maxSteps) == done \/ steps >= maxSteps

\* TrainingManager.step(); action = the agent's choice
managerStep(m, s, action, jits, jit, noise, picks) ==
  IF m.mode = "human" \/ ~m.hasEpisode
  THEN [m |-> m, s |-> s, done |-> FALSE, stepped |-> FALSE, game |-> NoResult]
  ELSE Bind(stepOf(s, action, TrainDt, jits, jit, noise, picks), LAMBDA st :
       Bind([m EXCEPT !.episodeReward = m.episodeReward + st.ret.reward,
                      !.episodeSteps = m.episodeSteps + 1], LAMBDA m1 :
         IF episodeOver(st.ret.done, m1.episodeSteps, m1.maxStepsPerEpisode)
         THEN Bind(endEpisode(m1, st.s, jits), LAMBDA e :
                [m |-> e.m, s |-> e.s, done |-> TRUE, stepped |-> TRUE, game |-> st.ret.info])
         ELSE [m |-> m1, s |-> st.s, done |-> FALSE, stepped |-> TRUE, game |-> st.ret.info]))

(***************************************************************************)
(* The manager of a newly constructed game, built with maxSteps 3 or 5 or  *)
(* without the option, switched between its modes and stepped.  The        *)
(* hunters draw no jitter and decay draws the top right corner.            *)
(***************************************************************************)
TrainCalls == 6
MaxStepsOptions == {Undefined, 3, 5}
Modes == {"human", "train", "ai_play"}
TrainActions == 0 .. (numActions - 1)
TrainDraw == [u1 |-> 0, u2 |-> 0, c |-> COLS - 1, r |-> 0]

managerOf == lastOp.info
noJitters(n) == [i \in 1 .. n |-> NoJitter]

\* a: the mode or the action; b: the manager before the call; c: the value
\* returned and what the game's step reported; info: the manager
ManagerCall(name, a, before, ret, m) == Op(name, a, before, ret, m)

TrainInit ==
  \E maxSteps \in MaxStepsOptions :
    /\ InitAt(constructed)
    /\ lastOp = ManagerCall("new", maxSteps, newManager(maxSteps),
                            [done |-> FALSE, stepped |-> FALSE, game |-> NoResult, calls |-> 0],
                            newManager(maxSteps))

TrainSetMode ==
  \E mode \in Modes :
    /\ lastOp.op # "setMode"
    /\ \E r \in {setMode(managerOf, State, mode, noJitters(getLevelConfig(1).cats))} :
         /\ SetState(r.s)
         /\ lastOp' = ManagerCall("setMode", mode, managerOf,
                                  [done |-> FALSE, stepped |-> FALSE, game |-> NoResult,
                                   calls |-> lastOp.c.calls], r.m)
    /\ UNCHANGED result

TrainStep ==
  \E action \in TrainActions :
    /\ lastOp.c.calls < TrainCalls
    /\ \E r \in {managerStep(managerOf, State, action,
                             noJitters(getLevelConfig(level + 1).cats),
                             noJitters(Len(cats)), [i \in 1 .. Len(cats) |-> NoNoise],
                             [i \in 1 .. decayCalls(State, TrainDt) |-> TrainDraw])} :
         /\ SetState(r.s)
         /\ lastOp' = ManagerCall("managerStep", action, managerOf,
                                  [done |-> r.done, stepped |-> r.stepped, game |-> r.game,
                                   calls |-> lastOp.c.calls + 1], r.m)
    /\ UNCHANGED result

TrainNext == TrainSetMode \/ TrainStep

TrainSpec == TrainInit /\ [][TrainNext]_vars

\* a step of the manager in TRAIN or AI_PLAY mode with an episode under way
EpisodeStep == lastOp'.op = "managerStep" /\ managerOf.mode # "human" /\ managerOf.hasEpisode

\* the game reported done, or the count has reached the limit with this step
EpisodeEnds ==
  \/ lastOp'.c.game.caught \/ lastOp'.c.game.levelComplete
  \/ managerOf.episodeSteps + 1 >= managerOf.maxStepsPerEpisode

\* the game is as reset(1) leaves it
GameReset ==
  /\ level' = 1 /\ running' /\ timeAlive' = 0 /\ decayAccum' = 0
  /\ player' = playerReset
  /\ crumbs' = buildHoleBarrierIn(EmptyCrumbs).crumbs
  /\ Len(cats') = getLevelConfig(1).cats

\* C37: in TRAIN and AI_PLAY mode the count of steps of the episode never
\* exceeds maxStepsPerEpisode; the step on which the game reports done or
\* the count reaches maxStepsPerEpisode returns done = true, resets the game
\* and leaves the count and the episode reward at 0; every other step
\* returns done = false and adds 1 to the count.
C37_EpisodeBounded ==
  /\ [](managerOf.mode # "human" => managerOf.episodeSteps < managerOf.maxStepsPerEpisode)
  /\ [][EpisodeStep =>
          /\ lastOp'.c.stepped
          /\ lastOp'.c.done <=> EpisodeEnds
          /\ EpisodeEnds => /\ lastOp'.info.episodeSteps = 0
                            /\ lastOp'.info.episodeReward = 0
                            /\ lastOp'.info.hasEpisode
                            /\ GameReset
          /\ ~EpisodeEnds => lastOp'.info.episodeSteps = managerOf.episodeSteps + 1]_vars

\* C37 witness: the step that brought the count to maxStepsPerEpisode has
\* ended an episode that the game had not ended
C37_Witness ==
  /\ lastOp.op = "managerStep"
  /\ lastOp.c.done /\ ~lastOp.c.game.caught /\ ~lastOp.c.game.levelComplete
  /\ lastOp.b.episodeSteps + 1 = lastOp.b.maxStepsPerEpisode
  /\ managerOf.episodeSteps = 0 /\ managerOf.episodeReward = 0
  /\ lastOp.b.episodeReward # 0
  /\ timeAlive = 0
(***************************************************************************)
(* Agents as objects.  An array (a Float32Array of Q-values, the array     *)
(* stats.recentRewards) is an object of the heap, a sequence of arrays,    *)
(* and a field that holds an array holds its index there, so that two      *)
(* fields may hold one array.  The numbers and the stats object itself     *)
(* are held by value: exportQTable and importQTable build a new stats      *)
(* object with a spread, which copies the fields, the reference            *)
(* recentRewards among them.                                               *)
(***************************************************************************)
\* the agent with every array reference replaced by the array
valueOf(agent, heap) ==
  [agent EXCEPT !.stats.recentRewards = heap[agent.stats.recentRewards],
                !.qTable = [i \in 1 .. Len(agent.qTable) |->
                              [key |-> agent.qTable[i].key, q |-> heap[agent.qTable[i].q]]]]

\* the agent and the heap after a method that changes its arrays in place
\* and adds entries to the table: val = the agent it leaves, by value
RECURSIVE storeBack(_, _, _, _)
storeBack(agent, val, heap, i) ==
  IF i > Len(val.qTable)
  THEN [agent |-> [agent EXCEPT !.stats = [val.stats EXCEPT !.recentRewards =
                                             agent.stats.recentRewards],
                                !.epsilon = val.epsilon],
        heap |-> [heap EXCEPT ![agent.stats.recentRewards] = val.stats.recentRewards]]
  ELSE IF i <= Len(agent.qTable)
  THEN storeBack(agent, val, [heap EXCEPT ![agent.qTable[i].q] = val.qTable[i].q], i + 1)
  ELSE storeBack([agent EXCEPT !.qTable = Append(agent.qTable,
                                  [key |-> val.qTable[i].key, q |-> Len(heap) + 1])],
                 val, Append(heap, val.qTable[i].q), i + 1)

\* new QLearningAgent(options): recentRewards is a new array
newAgentAt(options, heap) ==
  [agent |-> [newAgent(options) EXCEPT !.stats.recentRewards = Len(heap) + 1],
   heap |-> Append(heap, << >>)]

\* Math.max(...q)
RECURSIVE maxOfArray(_, _)
maxOfArray(q, i) ==
  IF i = Len(q) THEN q[i]
  ELSE LET m == maxOfArray(q, i + 1) IN IF q[i] > m THEN q[i] ELSE m

\* update(state, action, reward, nextState, done); init, nextInit = the
\* draws of getQ for a key that is new
update(agent, state, action, reward, nextState, done, init, nextInit) ==
  LET key == stateToKey(state)
      a1 == getQ(agent, key, init)
      a2 == IF done THEN a1 ELSE getQ(a1, stateToKey(nextState), nextInit)
      target == IF done THEN reward
                ELSE reward + fmul(a2.gamma,
                                   maxOfArray(tableGet(a2.qTable, stateToKey(nextState)), 1))
      q == tableGet(a2.qTable, key)
  IN [a2 EXCEPT !.qTable = tableSet(a2.qTable, key,
                    [q EXCEPT ![action + 1] = q[action + 1] + fmul(a2.lr, target - q[action + 1])])]

\* recordEpisode and update on the agent as an object
recordEpisodeAt(agent, heap, totalReward) ==
  storeBack(agent, recordEpisode(valueOf(agent, heap), totalReward), heap, 1)

updateAt(agent, heap, state, action, reward, nextState, done, init, nextInit) ==
  storeBack(agent, update(valueOf(agent, heap), state, action, reward, nextState, done,
                          init, nextInit), heap, 1)

\* the loop of exportQTable: data.qTable[key] = Array.from(values), a new array
RECURSIVE exportEntries(_, _, _, _)
exportEntries(agent, heap, entries, i) ==
  IF i > Len(agent.qTable) THEN [entries |-> entries, heap |-> heap]
  ELSE exportEntries(agent, Append(heap, arrayFrom(heap[agent.qTable[i].q])),
                     Append(entries, [key |-> agent.qTable[i].key, values |-> Len(heap) + 1]),
                     i + 1)

\* exportQTable() on the agent as an object: stats: { ...this.stats }
exportQTableAt(agent, heap) ==
  LET ex == exportEntries(agent, heap, << >>, 1)
  IN [data |-> [lr |-> agent.lr, gamma |-> agent.gamma, epsilon |-> agent.epsilon,
                epsilonDecay |-> agent.epsilonDecay, epsilonMin |-> agent.epsilonMin,
                bins |-> agent.bins, stats |-> agent.stats, qTable |-> ex.entries],
      heap |-> ex.heap]

\* the loop of importQTable: qTable.set(key, new Float32Array(values)), a new
\* array; the keys of an export are distinct
RECURSIVE importEntriesAt(_, _, _, _)
importEntriesAt(qTable, heap, entries, i) ==
  IF i > Len(entries) THEN [qTable |-> qTable, heap |-> heap]
  ELSE importEntriesAt(Append(qTable, [key |-> entries[i].key, q |-> Len(heap) + 1]),
                       Append(heap, newFloat32Array(arrayOf(heap[entries[i].values])).q),
                       entries, i + 1)

\* importQTable(data) of an exported object: this.stats = { ...data.stats }
importQTableAt(agent, heap, data) ==
  LET im == importEntriesAt(<< >>, heap, data.qTable, 1)
  IN [agent |-> [agent EXCEPT !.lr = orElse(data.lr, agent.lr),
                              !.gamma = orElse(data.gamma, agent.gamma),
                              !.epsilon = orElse(data.epsilon, agent.epsilon),
                              !.epsilonDecay = orElse(data.epsilonDecay, agent.epsilonDecay),
                              !.epsilonMin = orElse(data.epsilonMin, agent.epsilonMin),
                              !.bins = orElse(data.bins, agent.bins),
                              !.stats = data.stats,
                              !.qTable = im.qTable],
      heap |-> im.heap]

(***************************************************************************)
(* Two agents A and B: each learns and records episodes, A exports and B   *)
(* imports the object A returned.  lastOp.info holds the two agents, the   *)
(* heap, the exported object and whether B has imported it; lastOp.a is    *)
(* the agent called and lastOp.b what info was before the call.            *)
(***************************************************************************)
ShareEpisodes == 1
ShareUpdates == 2
ShareRewards == {-3, 4}
ShareInit0 == <<2, 7, 7, 1, 0>>
Who == {"A", "B"}

worldOf == lastOp.info

noData ==
  [lr |-> Undefined, gamma |-> Undefined, epsilon |-> Undefined, epsilonDecay |-> Undefined,
   epsilonMin |-> Undefined, bins |-> Undefined,
   stats |-> [newStats EXCEPT !.recentRewards = 0], qTable |-> << >>]

newWorld ==
  LET a == newAgentAt(noOptions, << >>)
      b == newAgentAt(noOptions, a.heap)
  IN [A |-> a.agent, B |-> b.agent, heap |-> b.heap, data |-> noData, exported |-> FALSE,
      imported |-> FALSE, updates |-> 0]

\* the world after a call that left agent who and the heap as r holds them
withAgent(w, who, r) ==
  IF who = "A" THEN [w EXCEPT !.A = r.agent, !.heap = r.heap]
  ELSE [w EXCEPT !.B = r.agent, !.heap = r.heap]

agentIn(w, who) == IF who = "A" THEN w.A ELSE w.B

ShareCall(name, who, w) ==
  /\ lastOp' = Op(name, who, worldOf, 0, w)
  /\ UNCHANGED <<GameFields, result>>

ShareInit ==
  /\ InitAt(constructed)
  /\ lastOp = Op("new", "A", newWorld, 0, newWorld)

SRecordEpisode ==
  \E who \in Who, r \in ShareRewards :
    /\ agentIn(worldOf, who).stats.episodes < ShareEpisodes
    /\ ShareCall("recordEpisode", who,
                 withAgent(worldOf, who, recordEpisodeAt(agentIn(worldOf, who), worldOf.heap, r)))

SUpdate ==
  \E who \in Who, state \in Observations, nextState \in Observations, r \in ShareRewards,
     done \in BOOLEAN, action \in {3} :
    /\ done \/ nextState # state
    /\ worldOf.updates < ShareUpdates
    /\ ShareCall("update", who,
                 [withAgent(worldOf, who,
                            updateAt(agentIn(worldOf, who), worldOf.heap, state, action, r,
                                     nextState, done, ShareInit0, ShareInit0))
                    EXCEPT !.updates = worldOf.updates + 1])

SExport ==
  /\ ~worldOf.exported
  /\ \E ex \in {exportQTableAt(worldOf.A, worldOf.heap)} :
       ShareCall("exportQTable", "A",
                 [worldOf EXCEPT !.data = ex.data, !.heap = ex.heap, !.exported = TRUE])

SImport ==
  /\ worldOf.exported /\ ~worldOf.imported
  /\ ShareCall("importQTable", "B",
               [withAgent(worldOf, "B", importQTableAt(worldOf.B, worldOf.heap, worldOf.data))
                  EXCEPT !.imported = TRUE])

ShareNext == SRecordEpisode \/ SUpdate \/ SExport \/ SImport

ShareSpec == ShareInit /\ [][ShareNext]_vars

\* a recordEpisode or update call on agent who, after B has imported
LaterCall(who) ==
  /\ worldOf.imported
  /\ lastOp'.op \in {"recordEpisode", "update"} /\ lastOp'.a = who

\* the agent who by value, before and after the step
Kept(who) ==
  valueOf(agentIn(lastOp'.info, who), lastOp'.info.heap) = valueOf(agentIn(worldOf, who), worldOf.heap)

\* C39: after B has imported the object A's exportQTable returned, a
\* recordEpisode or update call on A leaves B's statistics, recent-rewards
\* window and Q-values as they were, and a call on B leaves A's.
C39_SnapshotIndependent ==
  [][(LaterCall("A") => Kept("B")) /\ (LaterCall("B") => Kept("A"))]_vars

\* the part of C39 that holds: the Q-values and the numbers of the
\* statistics of the other agent are kept, its recent-rewards window apart
KeptButWindow(who) ==
  LET before == valueOf(agentIn(worldOf, who), worldOf.heap)
      after == valueOf(agentIn(lastOp'.info, who), lastOp'.info.heap)
  IN [after EXCEPT !.stats.recentRewards = << >>] = [before EXCEPT !.stats.recentRewards = << >>]

QValuesIndependent ==
  [][(LaterCall("A") => KeptButWindow("B")) /\ (LaterCall("B") => KeptButWindow("A"))]_vars

====
